---- MODULE Spec2Model ----
(***************************************************************************)
(* A model of nano-wallet-js: the endpoint failover client (NanoRPC), the  *)
(* account state store (BaseController) and the wallet (NanoWallet).       *)
(*                                                                         *)
(* JavaScript runs one callback at a time: every action below is the code  *)
(* that runs between two suspension points (an await of network I/O).      *)
(***************************************************************************)
EXTENDS Integers, Sequences, FiniteSets, TLC

(***************************************************************************)
(* Bounds of the model.                                                    *)
(***************************************************************************)
\* longest endpoint list handed to the NanoRPC constructor
MaxUrls == 3
\* wallet calls (sync, getReceivable, receive, ...) issued in one behaviour
MaxCalls == 2
\* blocks sent to the account by others in one behaviour
MaxDeposits == 1
\* the balance of an account that was opened before the behaviour starts
InitialBalance == 2
\* config.minAmountRaw, in raw units scaled down
MinAmountRaw == 2
\* listeners a caller has subscribed to the store at one time
MaxListeners == 2
\* callers that share one Locker
MaxClients == 3
\* calls of Locker.acquire in one behaviour
MaxAcquires == 4

(***************************************************************************)
(* Values.                                                                 *)
(***************************************************************************)
\* an absent string / body / error in a record of fixed shape
NONE == "none"

\* the address strings a caller may configure; NotAUrl makes `new URL` throw
NotAUrl == "not a url"

\* the i-th well-formed address
UrlNames ==
    <<"http://node1", "http://node2", "http://node3", "http://node4",
      "http://node5", "http://node6">>

\* `new URL(addr)` succeeds
IsValidUrl(addr) == addr # NotAUrl

\* JavaScript error objects: the class (instanceof), the name, the message
DOMAbortError ==
    [cls |-> "DOMException", name |-> "AbortError",
     message |-> "This operation was aborted"]

FetchTypeError ==
    [cls |-> "TypeError", name |-> "TypeError", message |-> "fetch failed"]

NewError(msg) == [cls |-> "Error", name |-> "Error", message |-> msg]

NoError == [cls |-> NONE, name |-> NONE, message |-> NONE]

BAD_STATUS == "bad status in response"
BAD_JSON == "bad json in response"
ACCOUNT_NOT_FOUND == "Account not found"

\* the outcome of an async call: still pending, returned a body, or threw
Pending == [kind |-> "none", body |-> [none |-> TRUE], error |-> NoError]

Return(body) == [kind |-> "return", body |-> body, error |-> NoError]

Raise(error) == [kind |-> "raise", body |-> [none |-> TRUE], error |-> error]

(***************************************************************************)
(* The state.                                                              *)
(***************************************************************************)
VARIABLES
    \* NanoRPC ------------------------------------------------------------
    rpc,        \* the NanoRPC object: construction status and endpoint lists
    call,       \* the postRPC call in progress (one at a time in SpecRpc)
    \* NanoWallet ---------------------------------------------------------
    state,             \* BaseController.internalState: the snapshot
    config,            \* BaseController.internalConfig
    previousFrontier,  \* the closure variable of the precompute listener
    tasks,             \* the wallet calls: where each is suspended
    precompute,        \* the getWork calls started by the listener
    remote,            \* the account on the node's ledger
    listeners,         \* the listeners callers subscribed, in order
    notified,          \* the calls of those listeners, in order
    \* Locker -------------------------------------------------------------
    locker             \* a Locker object and the callers that use it

rpcVars == <<rpc, call>>

walletVars ==
    <<state, config, previousFrontier, tasks, precompute, remote, listeners,
      notified>>

vars == <<rpc, call, state, config, previousFrontier, tasks, precompute,
          remote, listeners, notified, locker>>

(***************************************************************************)
(* Locker: isLocked, the queue of resolve functions of the callers that    *)
(* wait, and where each caller is: "idle", "waiting" (its promise is in    *)
(* the queue), "resolved" (the promise of its acquire is resolved, the     *)
(* continuation of its await has not run yet) or "holding".  asked and     *)
(* granted list the callers in the order acquire was called and in the     *)
(* order the promises of acquire were resolved; woken lists the callers    *)
(* whose resolve function release called.                                  *)
(***************************************************************************)
Clients == 1..MaxClients

\* new Locker()
NewLocker ==
    [isLocked |-> FALSE, queue |-> <<>>, pc |-> [c \in Clients |-> "idle"],
     asked |-> <<>>, granted |-> <<>>, woken |-> <<>>]

\* acquire(), called by c: the lock is taken when it is free, else the
\* resolve function of a new promise is pushed on the queue
acquire(l, c) ==
    IF ~l.isLocked
    THEN [l EXCEPT !.isLocked = TRUE, !.pc[c] = "resolved",
                   !.asked = Append(@, c), !.granted = Append(@, c)]
    ELSE [l EXCEPT !.queue = Append(@, c), !.pc[c] = "waiting",
                   !.asked = Append(@, c)]

\* mutant of release: the lock is also marked free when it is handed over
releaseUnlocks(l) ==
    IF Len(l.queue) > 0
    THEN [l EXCEPT !.queue = Tail(@), !.pc[Head(l.queue)] = "resolved",
                   !.granted = Append(@, Head(l.queue)),
                   !.woken = Append(@, Head(l.queue)), !.isLocked = FALSE]
    ELSE [l EXCEPT !.isLocked = FALSE]

\* mutant of release: the waiter that came last is woken
releaseLast(l) ==
    IF Len(l.queue) > 0
    THEN [l EXCEPT !.queue = SubSeq(@, 1, Len(@) - 1),
                   !.pc[l.queue[Len(l.queue)]] = "resolved",
                   !.granted = Append(@, l.queue[Len(l.queue)]),
                   !.woken = Append(@, l.queue[Len(l.queue)])]
    ELSE [l EXCEPT !.isLocked = FALSE]

\* release(): the first resolve function of the queue is shifted and
\* called, or the lock is marked free when nobody waits
release(l) ==
    IF Len(l.queue) > 0
    THEN [l EXCEPT !.queue = Tail(@), !.pc[Head(l.queue)] = "resolved",
                   !.granted = Append(@, Head(l.queue)),
                   !.woken = Append(@, Head(l.queue))]
    ELSE [l EXCEPT !.isLocked = FALSE]

\* await locker.acquire(), up to the await
Acquire(c) ==
    /\ locker.pc[c] = "idle"
    /\ Len(locker.asked) < MaxAcquires
    /\ locker' = acquire(locker, c)
    /\ UNCHANGED <<rpcVars, walletVars>>

\* the await of acquire resumes: c holds the lock
Enter(c) ==
    /\ locker.pc[c] = "resolved"
    /\ locker' = [locker EXCEPT !.pc[c] = "holding"]
    /\ UNCHANGED <<rpcVars, walletVars>>

\* locker.release(), called by the holder
Release(c) ==
    /\ locker.pc[c] = "holding"
    /\ locker' = [release(locker) EXCEPT !.pc[c] = "idle"]
    /\ UNCHANGED <<rpcVars, walletVars>>

(***************************************************************************)
(* NanoRPC: the endpoint failover client (src/rpc/RpcController.ts).       *)
(***************************************************************************)
\* The url arguments a caller may hand to the constructor: an array of
\* 0..MaxUrls well-formed addresses, an array holding a malformed address,
\* or a single string.
UrlArray(n) == [i \in 1..n |-> UrlNames[i]]

UrlArguments ==
    {[isArray |-> TRUE, array |-> UrlArray(n), string |-> NONE] :
        n \in 0..MaxUrls}
        \cup {[isArray |-> TRUE, array |-> <<UrlNames[1], NotAUrl>>,
               string |-> NONE],
              [isArray |-> FALSE, array |-> <<>>, string |-> UrlNames[1]]}

\* rpcUrls instanceof Array ? rpcUrls : [rpcUrls]
ToArray(arg) == IF arg.isArray THEN arg.array ELSE <<arg.string>>

\* if (this.rpcUrls.length < 0)
NoAddresses(urls) == Len(urls) < 0

\* urls.forEach(addr => new URL(addr)) finds a malformed address
HasInvalidUrl(urls) == \E i \in 1..Len(urls) : ~IsValidUrl(urls[i])

\* new NanoRPC({rpcUrls, workerUrls}): the object, or the error thrown
NanoRPC(rpcArg, workerArg) ==
    LET rpcUrls == ToArray(rpcArg)
        workerUrls == ToArray(workerArg)
        threw(msg) == [status |-> "threw", rpcUrls |-> <<>>,
                       workerUrls |-> <<>>, error |-> msg]
    IN  IF NoAddresses(rpcUrls) THEN threw("No RPC addresses provided")
        ELSE IF HasInvalidUrl(rpcUrls) THEN threw("Invalid RPC address")
        ELSE IF NoAddresses(workerUrls)
            THEN threw("No workers addresses provided")
        ELSE IF HasInvalidUrl(workerUrls)
            THEN threw("Invalid workers address")
        ELSE [status |-> "ok", rpcUrls |-> rpcUrls,
              workerUrls |-> workerUrls, error |-> NONE]

\* What an endpoint does with one request: lets the per-attempt abort fire,
\* fails at the transport, answers a non-success status, answers a body
\* that is not JSON, or answers a JSON body, with or without an "error"
\* field (a string, or another JSON value).
ErrorTexts == {ACCOUNT_NOT_FOUND}

ErrorObject == "code1"

EndpointBehaviours ==
    {[kind |-> k, error |-> NONE] :
        k \in {"timeout", "transport", "status", "badjson", "json"}}
        \cup {[kind |-> "jsonErrorString", error |-> e] : e \in ErrorTexts}
        \cup {[kind |-> "jsonErrorObject", error |-> ErrorObject]}

\* JSON.stringify(body.error) of an error that is not a string
JSONStringify(v) == "{\"code\":1}"

\* The try block of postRPC for one attempt at endpoint `url`:
\* fetchWithTimeout, the status check, response.json(), the error field.
Attempt(b, url) ==
    CASE b.kind = "timeout" -> Raise(DOMAbortError)
      [] b.kind = "transport" -> Raise(FetchTypeError)
      [] b.kind = "status" -> Raise(NewError(BAD_STATUS))
      [] b.kind = "badjson" -> Raise(NewError(BAD_JSON))
      [] b.kind = "jsonErrorString" -> Raise(NewError(b.error))
      [] b.kind = "jsonErrorObject" -> Raise(NewError(JSONStringify(b.error)))
      [] OTHER -> Return([servedBy |-> url])

\* mutants of isRetryableError: the abort is not recognised; every error is
\* retried
isRetryableErrorNoAbort(error) ==
    error.cls = "DOMException"
        /\ (error.message = BAD_STATUS \/ error.message = BAD_JSON)

isRetryableErrorAny(error) == TRUE

\* error instanceof DOMException && (error.name === 'AbortError' || ...)
isRetryableError(error) ==
    error.cls = "DOMException"
        /\ (error.name = "AbortError"
            \/ error.message = BAD_STATUS
            \/ error.message = BAD_JSON)

\* isRetryableError && retry < urls.length - 1
canRetry(error, retry, urls) ==
    isRetryableError(error) /\ retry < Len(urls) - 1

\* mutant of RetryAfter: the retry index goes back to the first endpoint
RetryAfterWrapped(retry) == IF retry = 0 THEN 1 ELSE 0

\* return await this.postRPC(data, urls, retry + 1)
RetryAfter(retry) == retry + 1

\* const url = urls[retry]: undefined past the end of the list
UrlAt(urls, retry) ==
    IF retry + 1 \in 1..Len(urls) THEN urls[retry + 1] ELSE "undefined"

RpcActions ==
    {"process", "work_generate", "account_info", "account_balance",
     "receivable"}

\* process, accountInfo, accountBalance and receivable post to rpcUrls,
\* workGenerate to workerUrls
UrlsFor(action) ==
    IF action = "work_generate" THEN rpc.workerUrls ELSE rpc.rpcUrls

NoCall ==
    [pc |-> "idle", action |-> NONE, urls |-> <<>>, retry |-> 0,
     attempts |-> <<>>, behaviour |-> <<>>, result |-> Pending]

\* new NanoRPC(config)
Construct(rpcArg, workerArg) ==
    /\ rpc.status = "new"
    /\ rpc' = NanoRPC(rpcArg, workerArg)
    /\ UNCHANGED <<call, walletVars, locker>>

\* postRPC(data, urls, 0) up to its first await: the request to urls[0] is
\* on its way.  behaviour[i] is what the i-th endpoint will do with it (for
\* an empty list, what fetch(undefined) does).
PostRPC(action) ==
    /\ rpc.status = "ok"
    /\ call.pc = "idle"
    /\ LET urls == UrlsFor(action)
           n == IF Len(urls) = 0 THEN 1 ELSE Len(urls)
       IN  \E behaviour \in [1..n -> EndpointBehaviours] :
               call' = [pc |-> "fetching", action |-> action, urls |-> urls,
                        retry |-> 0, attempts |-> <<0>>,
                        behaviour |-> behaviour, result |-> Pending]
    /\ UNCHANGED <<rpc, walletVars, locker>>

\* The attempt settles: the body is returned, or the catch block retries
\* with the next endpoint (postRPC(data, urls, retry + 1)) or rethrows.
FetchSettles ==
    /\ call.pc = "fetching"
    /\ LET url == UrlAt(call.urls, call.retry)
           got == Attempt(call.behaviour[call.retry + 1], url)
       IN  IF got.kind = "raise" /\ canRetry(got.error, call.retry, call.urls)
           THEN call' = [call EXCEPT !.retry = RetryAfter(@),
                                     !.attempts = Append(@, call.retry + 1)]
           ELSE call' = [call EXCEPT !.pc = "done", !.result = got]
    /\ UNCHANGED <<rpc, walletVars, locker>>

\* the caller of postRPC resumes with the body or the error
PostRPCSettled ==
    /\ call.pc = "done"
    /\ call' = NoCall
    /\ UNCHANGED <<rpc, walletVars, locker>>

(***************************************************************************)
(* Wallet values.                                                          *)
(***************************************************************************)
\* frontier: string | null.  Hashes are tuples, null is the empty one.
NullHash == <<>>

\* representative: string | null
NullAddress == "null"

\* derivePublicKey(config.privateKey)
publicKey == <<"PUBLIC_KEY">>

\* The hash of a block somebody else sent to the account, as the hex string
\* a caller may type it: the node reports it in upper case.
SourceHash(k, upper) == <<"SOURCE", k, upper>>

\* link.toUpperCase()
ToUpperCase(h) == IF Len(h) = 3 THEN SourceHash(h[2], TRUE) ELSE h

\* createBlock(privateKey, {previous, representative, balance, link}): the
\* block and its canonical hash, a one-to-one function of the fields.
Block(previous, representative, balance, link) ==
    [previous |-> previous, representative |-> representative,
     balance |-> balance, link |-> link]

HashOf(block) ==
    <<block.previous, block.representative, block.balance, block.link>>

\* the public key of the address a send pays to
Destination == <<"DESTINATION">>

\* A hash a faulty endpoint reports instead of the block's
BogusHash == <<"BOGUS">>

(***************************************************************************)
(* Difficulty thresholds: 16 hex digits, held as four 16-bit limbs, most   *)
(* significant first.                                                      *)
(***************************************************************************)
\* fffffff800000000
SEND_DIFFICULTY == <<65535, 65528, 0, 0>>

\* fffffe0000000000
RECEIVE_DIFFICULTY == <<65535, 65024, 0, 0>>


\* ffff000000000000: below both
WeakDifficulty == <<65535, 0, 0, 0>>

\* a >= b as unsigned 64-bit integers
RECURSIVE GteFrom(_, _, _)
GteFrom(a, b, i) ==
    IF i > Len(a) THEN TRUE
    ELSE IF a[i] # b[i] THEN a[i] > b[i]
    ELSE GteFrom(a, b, i + 1)

Gte(a, b) == GteFrom(a, b, 1)

\* the number of bits of x, 0 <= x < 2^16
BitLength(x) == CHOOSE n \in 0..16 : x < 2^n /\ (n = 0 \/ x >= 2^(n - 1))

\* parseInt(threshold, 16): a JavaScript number, a double with 53 bits of
\* mantissa.  A value of more than 53 bits loses its low bits, rounded to
\* the nearest even; the result is held as limbs again (the first limb is
\* 2^16 when the rounding carries out of 64 bits).
parseInt16(t) ==
    LET dropped == IF BitLength(t[1]) > 5 THEN BitLength(t[1]) - 5 ELSE 0
        unit == 2^dropped
        q == t[4] \div unit
        r == t[4] % unit
        up == dropped > 0
                /\ (2 * r > unit \/ (2 * r = unit /\ q % 2 = 1))
        l4 == (IF up THEN q + 1 ELSE q) * unit
        c4 == IF l4 >= 2^16 THEN 1 ELSE 0
        l3 == t[3] + c4
        c3 == IF l3 >= 2^16 THEN 1 ELSE 0
        l2 == t[2] + c3
        c2 == IF l2 >= 2^16 THEN 1 ELSE 0
    IN  <<t[1] + c2, l2 % 2^16, l3 % 2^16, l4 % 2^16>>

\* A work_generate solution: the hash it was computed for and the
\* difficulty it reaches.
WorkToken(hash, difficulty) == [hash |-> hash, difficulty |-> difficulty]

\* validateWork({work, blockHash, threshold}) of nanocurrency
validateWork(work, blockHash, threshold) ==
    work.hash = blockHash /\ Gte(work.difficulty, threshold)

(***************************************************************************)
(* The store: BaseController (src/BaseController.ts) and the precompute    *)
(* listener the NanoWallet constructor subscribes.                         *)
(***************************************************************************)
defaultState ==
    [balance |-> 0, receivable |-> 0, receivableBlocks |-> <<>>,
     frontier |-> NullHash, representative |-> NullAddress, work |-> <<>>]

\* Object.assign({}, this.internalState, state)
Merge(old, partial) ==
    [k \in DOMAIN old \cup DOMAIN partial |->
        IF k \in DOMAIN partial THEN partial[k] ELSE old[k]]

\* mutant of Assign: the snapshot is merged whatever `overwrite` is
AssignMerged(old, partial, overwrite) == Merge(old, partial)

\* this.internalState = overwrite ? Object.assign({}, state)
\*                                : Object.assign({}, this.internalState, state)
Assign(old, partial, overwrite) ==
    IF overwrite THEN partial ELSE Merge(old, partial)

\* the cached work (state.work: Work | null; null is the empty sequence)
Cached(hash, threshold, work) ==
    <<[hash |-> hash, threshold |-> threshold, work |-> work]>>

\* mutant of IsCached: the thresholds are not compared
IsCachedAnyThreshold(st, hash, threshold) ==
    st.work # <<>> /\ st.work[1].hash = hash

\* getWork's test: this.state.work?.hash === hash &&
\* parseInt(this.state.work.threshold, 16) >= parseInt(threshold, 16)
IsCached(st, hash, threshold) ==
    /\ st.work # <<>>
    /\ st.work[1].hash = hash
    /\ Gte(parseInt16(st.work[1].threshold), parseInt16(threshold))

\* A world is what a synchronous stretch of wallet code reads and writes:
\* the snapshot, the listener's previousFrontier, the work_generate
\* requests it sends for the listener (getWork is not awaited there), and
\* the calls of the subscribed listeners it makes; caller is the call that
\* awaits the update in progress, 0 when nothing awaits it.
World(st, prev, sent) ==
    [state |-> st, previousFrontier |-> prev, sent |-> sent,
     notified |-> <<>>, caller |-> 0]

\* getWork(hash, threshold) up to its first await, called by the listener:
\* nothing on a cache hit, else the work_generate request is sent.
ListenerGetWork(w, hash, threshold) ==
    IF IsCached(w.state, hash, threshold) THEN w
    ELSE [w EXCEPT !.sent =
            Append(@, [hash |-> hash, threshold |-> threshold])]

\* What a listener a caller subscribed does when it is called: an async
\* function whose promise resolves or rejects later, or a function that
\* throws before it returns a promise.  (A function that returns no
\* promise, as the constructor's listener, "returns": Promise.all takes its
\* value for resolved.)
ListenerBehaviours == {"resolves", "rejects", "throws"}

ListenerError == NewError("listener failed")

RECURSIVE forEach(_, _, _, _)
\* this.internalListeners.forEach(listener =>
\*     promises.push(listener(state, resetting)))
\* from the i-th subscribed listener on: each is called with the snapshot
\* and the marker; the exception of one that throws leaves the loop.
forEach(w, s, resetting, i) ==
    IF i > Len(listeners) THEN w
    ELSE LET l == listeners[i]
             called ==
                [w EXCEPT !.notified = Append(@,
                    [update |-> w.caller, listener |-> l.name, state |-> s,
                     resetting |-> resetting,
                     promise |-> IF l.behaviour = "throws" THEN "threw"
                                 ELSE IF l.behaviour = "returns"
                                 THEN "resolved"
                                 ELSE "pending",
                     settles |-> l.behaviour])]
         IN  IF l.behaviour = "throws" THEN called
             ELSE forEach(called, s, resetting, i + 1)

\* mutant of Listener: work cached for another hash is left in the cache
ListenerKeepsWork(w, s, cfg) ==
    [(IF /\ s.frontier # NullHash
         /\ s.frontier # w.previousFrontier
         /\ (s.work = <<>> \/ s.work[1].hash # s.frontier)
      THEN ListenerGetWork(w, s.frontier, SEND_DIFFICULTY)
      ELSE w) EXCEPT !.previousFrontier = s.frontier]

RECURSIVE updateWith(_, _, _, _, _)
\* mutant of Listener: the frontier is compared with the previousFrontier
\* read before the listener's own update
ListenerStalePrevious(w, s, cfg) ==
    LET w1 == IF s.work # <<>> /\ s.work[1].hash # s.frontier
              THEN [updateWith([w EXCEPT !.caller = 0], [work |-> <<>>],
                               FALSE, FALSE, cfg)
                        EXCEPT !.caller = w.caller]
              ELSE w
        w2 == IF /\ s.frontier # NullHash
                 /\ s.frontier # w.previousFrontier
                 /\ (s.work = <<>> \/ s.work[1].hash # s.frontier)
              THEN ListenerGetWork(w1, s.frontier, SEND_DIFFICULTY)
              ELSE w1
    IN  [w2 EXCEPT !.previousFrontier = s.frontier]

\* The listener of the constructor, run with snapshot s:
\*   if (state.work && state.work.hash !== state.frontier)
\*       this.update({ work: null });
\*   if (state.frontier && state.frontier !== previousFrontier &&
\*       (!state.work || state.work.hash !== state.frontier))
\*       this.getWork(state.frontier, SEND_DIFFICULTY);
\*   previousFrontier = state.frontier;
\* Nothing awaits the update it calls.
Listener(w, s, cfg) ==
    LET w1 == IF s.work # <<>> /\ s.work[1].hash # s.frontier
              THEN [updateWith([w EXCEPT !.caller = 0], [work |-> <<>>],
                               FALSE, FALSE, cfg)
                        EXCEPT !.caller = w.caller]
              ELSE w
        w2 == IF /\ s.frontier # NullHash
                 /\ s.frontier # w1.previousFrontier
                 /\ (s.work = <<>> \/ s.work[1].hash # s.frontier)
              THEN ListenerGetWork(w1, s.frontier, SEND_DIFFICULTY)
              ELSE w1
    IN  [w2 EXCEPT !.previousFrontier = s.frontier]

\* notify(state, resetting): every subscribed listener is called with the
\* snapshot, in the order of subscription; the constructor subscribed its
\* listener first, when config.precomputeWork is set.
notify(w, s, resetting, cfg) ==
    forEach(IF cfg.precomputeWork THEN Listener(w, s, cfg) ELSE w,
            s, resetting, 1)

\* mutant of updateWith: the frontier is stored and notified before the
\* other keys
updateWithFrontierFirst(w, partial, overwrite, resetting, cfg) ==
    LET first == IF "frontier" \in DOMAIN partial
                 THEN [w EXCEPT !.state = [@ EXCEPT
                                    !.frontier = partial.frontier]]
                 ELSE w
        torn == IF "frontier" \in DOMAIN partial
                THEN notify(first, first.state, resetting, cfg)
                ELSE w
        assigned == Assign(torn.state, partial, overwrite)
    IN  notify([torn EXCEPT !.state = assigned], assigned, resetting, cfg)

\* update(partial, overwrite, resetting): the snapshot is stored, then the
\* listeners are called
updateWith(w, partial, overwrite, resetting, cfg) ==
    LET assigned == Assign(w.state, partial, overwrite)
    IN  notify([w EXCEPT !.state = assigned], assigned, resetting, cfg)

\* update(partial)
update(w, partial, cfg) == updateWith(w, partial, FALSE, FALSE, cfg)

\* the world at the start of a stretch of code
Now == World(state, previousFrontier, <<>>)

\* the stretch of code ends in world w
Becomes(w) ==
    /\ state' = w.state
    /\ previousFrontier' = w.previousFrontier
    /\ precompute' = precompute \o w.sent
    /\ notified' = notified \o w.notified

(***************************************************************************)
(* The node: the account on the remote ledger, and what the RPC layer      *)
(* hands back for each action.  postRPC either returns the body of the     *)
(* endpoint that answered or raises (SpecRpc): RpcFailures are the errors  *)
(* it raises when the endpoints fail.                                      *)
(***************************************************************************)
RpcFailures == {DOMAbortError}

RECURSIVE SumAmounts(_)
\* TunedBigNumber(receivable).plus(amount) over the blocks, in order
SumAmounts(blocks) ==
    IF blocks = <<>> THEN 0
    ELSE Head(blocks).amount + SumAmounts(Tail(blocks))

\* account_info: the account's entry, 'Account not found' when it has no
\* block; an endpoint that has not got the account's blocks yet answers
\* 'Account not found' too.
AccountInfoResponses ==
    (IF remote.frontier = NullHash THEN {}
     ELSE {Return([balance |-> remote.balance, frontier |-> remote.frontier,
                   receivable |-> SumAmounts(remote.receivable),
                   representative |-> remote.representative])})
        \cup {Raise(NewError(ACCOUNT_NOT_FOUND))}
        \cup {Raise(e) : e \in RpcFailures}

\* receivable with a threshold: the blocks of at least that amount
ReceivableResponses ==
    {Return([blocks |->
                SelectSeq(remote.receivable,
                          LAMBDA b : b.amount >= config.minAmountRaw)])}
        \cup {Raise(NewError(ACCOUNT_NOT_FOUND))}
        \cup {Raise(e) : e \in RpcFailures}

\* work_generate: a solution for the hash at the difficulty asked for; from
\* a faulty worker a solution that is too weak, or none.
WorkGenerateResponses(hash, threshold) ==
    {Return([work |-> <<WorkToken(hash, threshold)>>]),
     Return([work |-> <<WorkToken(hash, WeakDifficulty)>>]),
     Return([work |-> <<>>])}
        \cup {Raise(e) : e \in RpcFailures}

\* The node's own check of a submitted block: the error it answers, or NONE
\* when it accepts the block.
ProcessRejection(block, work) ==
    LET root == IF block.previous = NullHash THEN publicKey
                ELSE block.previous
        isReceive == block.balance > remote.balance
        needed == IF isReceive THEN RECEIVE_DIFFICULTY ELSE SEND_DIFFICULTY
    IN  IF block.previous # remote.frontier THEN "Fork"
        ELSE IF isReceive
                /\ ~\E i \in 1..Len(remote.receivable) :
                        /\ remote.receivable[i].blockHash = block.link
                        /\ remote.receivable[i].amount
                                = block.balance - remote.balance
            THEN "Unreceivable"
        ELSE IF work = <<>> \/ ~validateWork(work[1], root, needed)
            THEN "Block work is less than threshold"
        ELSE NONE

\* the ledger after the node accepted the block
Processed(block) ==
    [remote EXCEPT
        !.frontier = HashOf(block),
        !.balance = block.balance,
        !.representative = block.representative,
        !.receivable = SelectSeq(@, LAMBDA b : b.blockHash # block.link)]

(***************************************************************************)
(* NanoWallet (src/wallet/WalletController.ts).  A task is one call of a   *)
(* wallet method; pc is the RPC action whose answer it awaits.             *)
(***************************************************************************)
NoTask ==
    [op |-> NONE, pc |-> "unused", arg |-> NullHash, amount |-> 0,
     balance |-> 0, block |-> Block(NullHash, NullAddress, 0, NullHash),
     work |-> <<>>, response |-> Pending, result |-> Pending, net |-> <<>>,
     retry |-> 0, account |-> NullAddress]

TaskIds == 1..MaxCalls

\* A call that ended hands its result to its caller before anything else
\* runs: the continuation of the caller's await is a microtask.
Running == \A id \in TaskIds : tasks[id].pc # "done"

\* calls are numbered in the order they are made
IsNext(id) ==
    /\ Running
    /\ tasks[id].pc = "unused"
    /\ \A j \in 1..(id - 1) : tasks[j].pc # "unused"

Awaits(id, action) ==
    /\ Running
    /\ tasks[id].pc = action
    /\ tasks[id].response = Pending

Answered(id, action) ==
    /\ Running
    /\ tasks[id].pc = action
    /\ tasks[id].response # Pending


\* the task sends the request of `action` and awaits its answer
Request(t, action) ==
    [t EXCEPT !.pc = action, !.response = Pending,
              !.net = Append(@, action), !.retry = 0]

\* the call is over: it returned a value or threw; what is kept of it is
\* its arguments, its result, the requests it sent and the retry index of
\* the last one
Done(t, result) ==
    [NoTask EXCEPT !.op = t.op, !.pc = "done", !.arg = t.arg,
                   !.result = result, !.net = t.net, !.retry = t.retry,
                   !.account = t.account]

Undefined == [none |-> TRUE]

\* const frontier = this.state.frontier || this.publicKey: the hash the
\* work of a block is computed for
WorkRoot(block) ==
    IF block.previous = NullHash THEN publicKey ELSE block.previous

\* the difficulty each operation asks for
ThresholdOf(op) ==
    IF op = "receive" THEN RECEIVE_DIFFICULTY ELSE SEND_DIFFICULTY

\* mutants of syncCatch: no error is swallowed; every error is swallowed
syncCatchRethrowsAll(error) == Raise(error)

syncCatchSwallowsAll(error) == Return(Undefined)

\* the catch block of sync():
\*   if (error.message !== 'Account not found') throw error;
syncCatch(error) ==
    IF error.message # ACCOUNT_NOT_FOUND THEN Raise(error)
    ELSE Return(Undefined)

\* sync() up to its first await: rpc.accountInfo(this.account)
SyncCall(id) ==
    /\ IsNext(id)
    /\ tasks' = [tasks EXCEPT
            ![id] = Request([NoTask EXCEPT !.op = "sync"], "account_info")]
    /\ UNCHANGED <<rpcVars, locker, state, config, previousFrontier, precompute, remote,
                 listeners, notified>>

\* sync() resumes with the answer of account_info: the update (not
\* awaited) and getReceivable() up to its await, or the catch block
SyncAccountInfo(id) ==
    /\ tasks[id].op = "sync"
    /\ Answered(id, "account_info")
    /\ LET got == tasks[id].response
           t == tasks[id]
       IN  IF got.kind = "return"
           THEN /\ Becomes(update(Now,
                        [balance |-> got.body.balance,
                         frontier |-> got.body.frontier,
                         receivable |-> got.body.receivable,
                         representative |-> got.body.representative],
                        config))
                /\ tasks' = [tasks EXCEPT
                        ![id] = Request(t, "receivable")]
           ELSE /\ tasks' = [tasks EXCEPT
                        ![id] = Done(t, syncCatch(got.error))]
                /\ UNCHANGED <<state, previousFrontier, precompute, notified>>
    /\ UNCHANGED <<rpcVars, locker, config, remote, listeners>>

\* getReceivable() up to its await: rpc.receivable(account, {threshold})
GetReceivableCall(id) ==
    /\ IsNext(id)
    /\ tasks' = [tasks EXCEPT
            ![id] = Request([NoTask EXCEPT !.op = "getReceivable"],
                            "receivable")]
    /\ UNCHANGED <<rpcVars, locker, state, config, previousFrontier, precompute, remote,
                 listeners, notified>>

\* for (const blockHash in blocks): the list and the sum of the amounts
\* mutant of ReceivableOf: the total goes on from the stored one
ReceivableOfAccumulated(blocks) ==
    [receivableBlocks |-> blocks,
     receivable |-> state.receivable + SumAmounts(blocks)]

ReceivableOf(blocks) ==
    [receivableBlocks |-> blocks, receivable |-> SumAmounts(blocks)]

\* getReceivable() resumes with the answer of receivable, alone or as the
\* last step of sync(); its error is rethrown, into sync's catch block
GetReceivableSettles(id) ==
    /\ Answered(id, "receivable")
    /\ LET got == tasks[id].response
           t == tasks[id]
       IN  IF got.kind = "return"
           THEN /\ Becomes(update(Now, ReceivableOf(got.body.blocks), config))
                /\ tasks' = [tasks EXCEPT ![id] =
                        Done(t, IF t.op = "sync" THEN Return(Undefined)
                                ELSE Return(ReceivableOf(got.body.blocks)))]
           ELSE /\ tasks' = [tasks EXCEPT ![id] =
                        Done(t, IF t.op = "sync" THEN syncCatch(got.error)
                                ELSE Raise(got.error))]
                /\ UNCHANGED <<state, previousFrontier, precompute, notified>>
    /\ UNCHANGED <<rpcVars, locker, config, remote, listeners>>

\* mutant of workGenerate: the work is not validated
workGenerateUnchecked(got, hash, threshold) ==
    IF got.kind = "raise" THEN got
    ELSE IF got.body.work = <<>> THEN Raise(NewError("No work"))
    ELSE got

\* the result of workGenerate(hash, threshold) for the answer of
\* work_generate: the work, or the error thrown
workGenerate(got, hash, threshold) ==
    IF got.kind = "raise" THEN got
    ELSE IF got.body.work = <<>> THEN Raise(NewError("No work"))
    ELSE IF ~validateWork(got.body.work[1], hash, threshold)
        THEN Raise(NewError("Invalid work"))
    ELSE got

\* mutant of NoFrontier: the precondition is not tested
NoFrontierIgnored(st) == FALSE

\* if (this.state.frontier === null) throw new Error('No frontier')
NoFrontier(st) == st.frontier = NullHash

\* mutant of BalanceIsValid: createBlock takes any balance
BalanceIsValidAlways(balance) == TRUE

\* createBlock of the nanocurrency library throws 'Balance is not valid'
\* unless the balance is the decimal string of an integer in 0..2^128-1
BalanceIsValid(balance) == balance >= 0

\* mutant of HashMatches: the reported hash is not compared
HashMatchesAlways(processed, hash) == TRUE

\* the negation of: processed.hash !== hash
HashMatches(processed, hash) == processed.hash = hash

\* mutant of Minus: the difference is clamped at one
MinusClamped(a, b) == IF a - b < 1 THEN 1 ELSE a - b

\* TunedBigNumber(a).minus(b)
Minus(a, b) == a - b

\* mutant of Plus: the amount is added twice
PlusTwice(a, b) == a + b + b

\* TunedBigNumber(a).plus(b)
Plus(a, b) == a + b

\* mutant of FindAmount: a missing block is taken for the first of the list
FindAmountOrFirst(st, arg) ==
    LET hits == SelectSeq(st.receivableBlocks,
                          LAMBDA b : b.blockHash = ToUpperCase(arg))
    IN  IF hits # <<>> THEN Head(hits).amount
        ELSE IF st.receivableBlocks # <<>>
            THEN Head(st.receivableBlocks).amount
        ELSE 0

\* link = link.toUpperCase();
\* this.state.receivableBlocks.find(b => b.blockHash === link)?.amount:
\* 0 stands for the undefined of a miss (every amount is positive)
FindAmount(st, arg) ==
    LET hits == SelectSeq(st.receivableBlocks,
                          LAMBDA b : b.blockHash = ToUpperCase(arg))
    IN  IF hits = <<>> THEN 0 ELSE Head(hits).amount

\* receive(link) up to its first await: the precondition, the block, and
\* getWork, which sends work_generate or, on a cache hit, hands the cached
\* work to rpc.process
ReceiveCall(id, arg) ==
    /\ IsNext(id)
    /\ LET amount == FindAmount(state, arg)
           balance == Plus(state.balance, amount)
           block == Block(state.frontier, config.representative, balance,
                          ToUpperCase(arg))
           t == [NoTask EXCEPT !.op = "receive", !.arg = ToUpperCase(arg),
                               !.amount = amount, !.balance = balance,
                               !.block = block]
       IN  tasks' = [tasks EXCEPT ![id] =
                IF amount = 0
                THEN Done([t EXCEPT !.arg = arg],
                          Raise(NewError("No receivable block")))
                ELSE IF IsCached(state, WorkRoot(block), RECEIVE_DIFFICULTY)
                THEN Request([t EXCEPT !.work = <<state.work[1].work>>],
                             "process")
                ELSE Request(t, "work_generate")]
    /\ UNCHANGED <<rpcVars, locker, state, config, previousFrontier, precompute, remote,
                 listeners, notified>>

\* getWork resumes in a chain-mutating call with the answer of
\* work_generate: the cache is written and the block is submitted, or the
\* call throws
GetWorkSettles(id) ==
    /\ Awaits(id, "work_generate")
    /\ \E resp \in WorkGenerateResponses(WorkRoot(tasks[id].block),
                                        ThresholdOf(tasks[id].op)) :
        LET t == tasks[id]
            hash == WorkRoot(t.block)
            threshold == ThresholdOf(t.op)
            got == workGenerate(resp, hash, threshold)
        IN  IF got.kind = "return"
            THEN /\ Becomes(update(Now,
                        [work |-> Cached(hash, threshold, got.body.work[1])],
                        config))
                 /\ tasks' = [tasks EXCEPT ![id] =
                        Request([t EXCEPT !.work = got.body.work],
                                "process")]
            ELSE /\ tasks' = [tasks EXCEPT ![id] = Done(t, got)]
                 /\ UNCHANGED <<state, previousFrontier, precompute, notified>>
    /\ UNCHANGED <<rpcVars, locker, config, remote, listeners>>

\* receive resumes with the answer of process: the hash check and the
\* commit
ReceiveCommit(id) ==
    /\ tasks[id].op = "receive"
    /\ Answered(id, "process")
    /\ LET got == tasks[id].response
           t == tasks[id]
           hash == HashOf(t.block)
       IN  IF got.kind = "raise"
           THEN /\ tasks' = [tasks EXCEPT ![id] = Done(t, got)]
                /\ UNCHANGED <<state, previousFrontier, precompute, notified>>
           ELSE IF ~HashMatches(got.body, hash)
           THEN /\ tasks' = [tasks EXCEPT ![id] =
                        Done(t, Raise(NewError("Block hash mismatch")))]
                /\ UNCHANGED <<state, previousFrontier, precompute, notified>>
           ELSE /\ Becomes(update(Now,
                        [balance |-> t.balance,
                         frontier |-> hash,
                         receivableBlocks |->
                            SelectSeq(state.receivableBlocks,
                                LAMBDA b : b.blockHash # t.block.link),
                         receivable |-> Minus(state.receivable, t.amount)],
                        config))
                /\ tasks' = [tasks EXCEPT ![id] =
                        Done(t, Return([hash |-> hash]))]
    /\ UNCHANGED <<rpcVars, locker, config, remote, listeners>>

\* send(to, amount) up to its first await: the precondition, the block
\* (createBlock rejects a balance below zero), and getWork
SendCall(id, amount) ==
    /\ IsNext(id)
    /\ LET balance == Minus(state.balance, amount)
           block == Block(state.frontier, config.representative, balance,
                          Destination)
           t == [NoTask EXCEPT !.op = "send", !.arg = Destination,
                               !.amount = amount, !.balance = balance,
                               !.block = block]
       IN  tasks' = [tasks EXCEPT ![id] =
                IF NoFrontier(state)
                THEN Done(t, Raise(NewError("No frontier")))
                ELSE IF ~BalanceIsValid(balance)
                THEN Done(t, Raise(NewError("Balance is not valid")))
                ELSE IF IsCached(state, state.frontier, SEND_DIFFICULTY)
                THEN Request([t EXCEPT !.work = <<state.work[1].work>>],
                             "process")
                ELSE Request(t, "work_generate")]
    /\ UNCHANGED <<rpcVars, locker, state, config, previousFrontier, precompute, remote,
                 listeners, notified>>

\* send resumes with the answer of process: the hash check and the commit
SendCommit(id) ==
    /\ tasks[id].op = "send"
    /\ Answered(id, "process")
    /\ LET got == tasks[id].response
           t == tasks[id]
           hash == HashOf(t.block)
       IN  IF got.kind = "raise"
           THEN /\ tasks' = [tasks EXCEPT ![id] = Done(t, got)]
                /\ UNCHANGED <<state, previousFrontier, precompute, notified>>
           ELSE IF ~HashMatches(got.body, hash)
           THEN /\ tasks' = [tasks EXCEPT ![id] =
                        Done(t, Raise(NewError("Block hash mismatch")))]
                /\ UNCHANGED <<state, previousFrontier, precompute, notified>>
           ELSE /\ Becomes(update(Now,
                        [balance |-> t.balance, frontier |-> hash], config))
                /\ tasks' = [tasks EXCEPT ![id] =
                        Done(t, Return([hash |-> hash]))]
    /\ UNCHANGED <<rpcVars, locker, config, remote, listeners>>

\* sweep(to) up to its first await: the precondition, the block with
\* balance '0', and getWork
SweepCall(id) ==
    /\ IsNext(id)
    /\ LET block == Block(state.frontier, config.representative, 0,
                          Destination)
           t == [NoTask EXCEPT !.op = "sweep", !.arg = Destination,
                               !.block = block]
       IN  tasks' = [tasks EXCEPT ![id] =
                IF NoFrontier(state)
                THEN Done(t, Raise(NewError("No frontier")))
                ELSE IF IsCached(state, state.frontier, SEND_DIFFICULTY)
                THEN Request([t EXCEPT !.work = <<state.work[1].work>>],
                             "process")
                ELSE Request(t, "work_generate")]
    /\ UNCHANGED <<rpcVars, locker, state, config, previousFrontier, precompute, remote,
                 listeners, notified>>

\* sweep resumes with the answer of process: the hash check and the commit
SweepCommit(id) ==
    /\ tasks[id].op = "sweep"
    /\ Answered(id, "process")
    /\ LET got == tasks[id].response
           t == tasks[id]
           hash == HashOf(t.block)
       IN  IF got.kind = "raise"
           THEN /\ tasks' = [tasks EXCEPT ![id] = Done(t, got)]
                /\ UNCHANGED <<state, previousFrontier, precompute, notified>>
           ELSE IF ~HashMatches(got.body, hash)
           THEN /\ tasks' = [tasks EXCEPT ![id] =
                        Done(t, Raise(NewError("Block hash mismatch")))]
                /\ UNCHANGED <<state, previousFrontier, precompute, notified>>
           ELSE /\ Becomes(update(Now,
                        [balance |-> 0, frontier |-> hash], config))
                /\ tasks' = [tasks EXCEPT ![id] =
                        Done(t, Return([hash |-> hash]))]
    /\ UNCHANGED <<rpcVars, locker, config, remote, listeners>>

\* mutant of configure: the configuration is left as it was
configureIgnored(cfg, partial) == cfg

\* configure(config): Object.assign(this.internalConfig, config)
configure(cfg, partial) == Merge(cfg, partial)

\* const representative = account || this.config.representative
RepresentativeOf(account, cfg) ==
    IF account = NullAddress THEN cfg.representative ELSE account

\* setRepresentative(account) up to its first await: the precondition, the
\* block with the stored balance and no link, and getWork
SetRepresentativeCall(id, account) ==
    /\ IsNext(id)
    /\ LET block == Block(state.frontier, RepresentativeOf(account, config),
                          state.balance, NullHash)
           t == [NoTask EXCEPT !.op = "setRepresentative", !.account = account,
                               !.balance = state.balance, !.block = block]
       IN  tasks' = [tasks EXCEPT ![id] =
                IF NoFrontier(state)
                THEN Done(t, Raise(NewError("No frontier")))
                ELSE IF IsCached(state, state.frontier, SEND_DIFFICULTY)
                THEN Request([t EXCEPT !.work = <<state.work[1].work>>],
                             "process")
                ELSE Request(t, "work_generate")]
    /\ UNCHANGED <<rpcVars, locker, state, config, previousFrontier, precompute, remote,
                 listeners, notified>>

\* setRepresentative resumes with the answer of process: the hash check,
\* the commit (with balance '0') and the change of the configuration
SetRepresentativeCommit(id) ==
    /\ tasks[id].op = "setRepresentative"
    /\ Answered(id, "process")
    /\ LET got == tasks[id].response
           t == tasks[id]
           hash == HashOf(t.block)
           representative == t.block.representative
       IN  IF got.kind = "raise"
           THEN /\ tasks' = [tasks EXCEPT ![id] = Done(t, got)]
                /\ UNCHANGED <<state, previousFrontier, precompute, notified,
                             config>>
           ELSE IF ~HashMatches(got.body, hash)
           THEN /\ tasks' = [tasks EXCEPT ![id] =
                        Done(t, Raise(NewError("Block hash mismatch")))]
                /\ UNCHANGED <<state, previousFrontier, precompute, notified,
                             config>>
           ELSE /\ Becomes(update(Now,
                        [balance |-> 0, frontier |-> hash,
                         representative |-> representative], config))
                /\ config' = configure(config,
                                [representative |-> representative])
                /\ tasks' = [tasks EXCEPT ![id] =
                        Done(t, Return([hash |-> hash]))]
    /\ UNCHANGED <<rpcVars, locker, remote, listeners>>

\* the caller's await of the call resumes with its result
CallSettled(id) ==
    /\ tasks[id].pc = "done"
    /\ tasks' = [tasks EXCEPT ![id] = [NoTask EXCEPT !.pc = "over"]]
    /\ UNCHANGED <<rpcVars, locker, state, config, previousFrontier, precompute, remote,
                 listeners, notified>>

\* mutant of ListenerGetWorkRejected: the failure undoes the snapshot
ListenerGetWorkRejectedUndoes(w, error) == [w EXCEPT !.state = defaultState]

\* workGenerate throws out of the getWork the listener called, before its
\* update; the listener dropped the promise, so no code runs on the
\* rejection
ListenerGetWorkRejected(w, error) == w

\* the getWork the listener started resumes with the answer of
\* work_generate: the cache is written, or the rejection goes unhandled
PrecomputeSettles(k) ==
    /\ Running
    /\ k \in 1..Len(precompute)
    /\ \E resp \in WorkGenerateResponses(precompute[k].hash,
                                        precompute[k].threshold) :
        LET p == precompute[k]
            got == workGenerate(resp, p.hash, p.threshold)
            rest == SubSeq(precompute, 1, k - 1)
                        \o SubSeq(precompute, k + 1, Len(precompute))
            w == IF got.kind = "return"
                 THEN update(Now,
                        [work |-> Cached(p.hash, p.threshold,
                                         got.body.work[1])], config)
                 ELSE ListenerGetWorkRejected(Now, got.error)
        IN  /\ state' = w.state
            /\ previousFrontier' = w.previousFrontier
            /\ precompute' = rest \o w.sent
            /\ notified' = notified \o w.notified
    /\ UNCHANGED <<rpcVars, locker, config, tasks, remote, listeners>>

(***************************************************************************)
(* The environment: the answers of the node and the deposits of others.    *)
(***************************************************************************)
AccountInfoAnswered(id) ==
    /\ Awaits(id, "account_info")
    /\ \E resp \in AccountInfoResponses :
            tasks' = [tasks EXCEPT ![id].response = resp]
    /\ UNCHANGED <<rpcVars, locker, state, config, previousFrontier, precompute, remote,
                 listeners, notified>>

ReceivableAnswered(id) ==
    /\ Awaits(id, "receivable")
    /\ \E resp \in ReceivableResponses :
            tasks' = [tasks EXCEPT ![id].response = resp]
    /\ UNCHANGED <<rpcVars, locker, state, config, previousFrontier, precompute, remote,
                 listeners, notified>>

\* the node accepts the block and reports its hash, or rejects it
ProcessAnswered(id) ==
    /\ Awaits(id, "process")
    /\ LET t == tasks[id]
           rejection == ProcessRejection(t.block, t.work)
       IN  IF rejection = NONE
           THEN /\ remote' = Processed(t.block)
                /\ tasks' = [tasks EXCEPT ![id].response =
                        Return([hash |-> HashOf(t.block)])]
           ELSE /\ tasks' = [tasks EXCEPT ![id].response =
                        Raise(NewError(rejection))]
                /\ UNCHANGED remote
    /\ UNCHANGED <<rpcVars, locker, state, config, previousFrontier, precompute,
                 listeners, notified>>

\* a faulty endpoint reports another hash, or the request fails
ProcessFails(id) ==
    /\ Awaits(id, "process")
    /\ \E resp \in {Return([hash |-> BogusHash])}
                    \cup {Raise(e) : e \in RpcFailures} :
            tasks' = [tasks EXCEPT ![id].response = resp]
    /\ UNCHANGED <<rpcVars, locker, state, config, previousFrontier, precompute, remote,
                 listeners, notified>>

\* somebody sends `amount` to the account
Deposit(amount) ==
    /\ Running
    /\ remote.deposits < MaxDeposits
    /\ remote' = [remote EXCEPT
            !.deposits = @ + 1,
            !.receivable = Append(@,
                [blockHash |-> SourceHash(remote.deposits + 1, TRUE),
                 amount |-> amount])]
    /\ UNCHANGED <<rpcVars, locker, state, config, previousFrontier, tasks, precompute,
                 listeners, notified>>

(***************************************************************************)
(* The wallets the behaviours start from: new NanoWallet(config, state)    *)
(* for a fresh account, and for an account that already has a block, with  *)
(* or without the snapshot saved by an earlier session.                    *)
(***************************************************************************)
OpenBlock ==
    Block(NullHash, "nano_rep0", InitialBalance, SourceHash(0, TRUE))

FreshAccount ==
    [frontier |-> NullHash, balance |-> 0, representative |-> NullAddress,
     receivable |-> <<>>, deposits |-> 0]

OpenedAccount ==
    [frontier |-> HashOf(OpenBlock), balance |-> InitialBalance,
     representative |-> "nano_rep0", receivable |-> <<>>, deposits |-> 0]

SavedWork ==
    {<<>>}
        \cup {Cached(HashOf(OpenBlock), t, WorkToken(HashOf(OpenBlock), t)) :
                t \in {RECEIVE_DIFFICULTY, SEND_DIFFICULTY}}

SavedStates ==
    {[defaultState EXCEPT !.frontier = HashOf(OpenBlock),
                          !.balance = InitialBalance,
                          !.representative = "nano_rep0",
                          !.work = w] : w \in SavedWork}

\* new NanoWallet(config, saved): initialize() merges the saved snapshot
\* into defaultState; then previousFrontier = this.state.frontier
NanoWallet(cfg, saved, account) ==
    /\ config = cfg
    /\ state = Merge(defaultState, saved)
    /\ previousFrontier = saved.frontier
    /\ tasks = [id \in TaskIds |-> NoTask]
    /\ precompute = <<>>
    /\ remote = account
    /\ listeners = <<>>
    /\ notified = <<>>

Configs ==
    {[representative |-> "nano_rep1", precomputeWork |-> p,
      minAmountRaw |-> MinAmountRaw] : p \in BOOLEAN}

NoRpc ==
    [status |-> "new", rpcUrls |-> <<>>, workerUrls |-> <<>>, error |-> NONE]

(***************************************************************************)
(* SpecRpc: the NanoRPC constructor and postRPC calls, one after another.  *)
(***************************************************************************)
InitRpc ==
    /\ rpc = NoRpc
    /\ call = NoCall
    /\ locker = NewLocker
    /\ NanoWallet(CHOOSE cfg \in Configs : cfg.precomputeWork, defaultState,
                  FreshAccount)

NextRpc ==
    \/ \E rpcArg \in UrlArguments, workerArg \in UrlArguments :
            Construct(rpcArg, workerArg)
    \/ \E action \in RpcActions : PostRPC(action)
    \/ FetchSettles
    \/ PostRPCSettled

SpecRpc == InitRpc /\ [][NextRpc]_vars

(***************************************************************************)
(* SpecWallet: calls of the wallet's methods, overlapping as their awaits  *)
(* allow, against a node that answers, fails, or reports a wrong hash.     *)
(***************************************************************************)
InitWallet ==
    /\ rpc = NoRpc
    /\ call = NoCall
    /\ locker = NewLocker
    /\ \E cfg \in Configs :
        \/ NanoWallet(cfg, defaultState, FreshAccount)
        \/ NanoWallet(cfg, defaultState, OpenedAccount)
        \/ \E saved \in SavedStates : NanoWallet(cfg, saved, OpenedAccount)

LinkArguments ==
    {SourceHash(k, upper) : k \in 1..(MaxDeposits + 1), upper \in BOOLEAN}

DepositAmounts == {MinAmountRaw - 1, MinAmountRaw}

\* an amount the balance covers and one no balance of the model covers
SendAmounts == {1, InitialBalance + MaxDeposits * MinAmountRaw + 1}

NextWallet ==
    \/ \E id \in TaskIds : SyncCall(id)
    \/ \E id \in TaskIds : SyncAccountInfo(id)
    \/ \E id \in TaskIds : GetReceivableCall(id)
    \/ \E id \in TaskIds : GetReceivableSettles(id)
    \/ \E id \in TaskIds : \E arg \in LinkArguments : ReceiveCall(id, arg)
    \/ \E id \in TaskIds : GetWorkSettles(id)
    \/ \E id \in TaskIds : ReceiveCommit(id)
    \/ \E id \in TaskIds : \E amount \in SendAmounts : SendCall(id, amount)
    \/ \E id \in TaskIds : SendCommit(id)
    \/ \E id \in TaskIds : CallSettled(id)
    \/ \E k \in 1..MaxCalls : PrecomputeSettles(k)
    \/ \E id \in TaskIds : AccountInfoAnswered(id)
    \/ \E id \in TaskIds : ReceivableAnswered(id)
    \/ \E id \in TaskIds : ProcessAnswered(id)
    \/ \E id \in TaskIds : ProcessFails(id)
    \/ \E amount \in DepositAmounts : Deposit(amount)

SpecWallet == InitWallet /\ [][NextWallet]_vars

(***************************************************************************)
(* SpecChain: the four chain-mutating calls (receive, send, sweep,         *)
(* setRepresentative), overlapping as their awaits allow, of a wallet      *)
(* constructed with the snapshot of an earlier session that had fetched    *)
(* the one receivable block of the account.                                *)
(***************************************************************************)
KnownReceivable ==
    <<[blockHash |-> SourceHash(1, TRUE), amount |-> MinAmountRaw]>>

ChainStarts ==
    {[account |-> [FreshAccount EXCEPT !.receivable = KnownReceivable,
                                       !.deposits = 1],
      saved |-> [defaultState EXCEPT !.receivableBlocks = KnownReceivable,
                                     !.receivable = MinAmountRaw]]}
    \cup
    {[account |-> [OpenedAccount EXCEPT !.receivable = KnownReceivable,
                                        !.deposits = 1],
      saved |-> [saved EXCEPT !.receivableBlocks = KnownReceivable,
                              !.receivable = MinAmountRaw]] :
        saved \in SavedStates}

InitChain ==
    /\ rpc = NoRpc
    /\ call = NoCall
    /\ locker = NewLocker
    /\ \E cfg \in Configs, start \in ChainStarts :
            NanoWallet(cfg, start.saved, start.account)

ChainLinks == {SourceHash(1, upper) : upper \in BOOLEAN}

\* setRepresentative() and setRepresentative('nano_rep2')
RepresentativeArguments == {NullAddress, "nano_rep2"}

NextChain ==
    \/ \E id \in TaskIds : \E arg \in ChainLinks : ReceiveCall(id, arg)
    \/ \E id \in TaskIds : ReceiveCommit(id)
    \/ \E id \in TaskIds : \E amount \in SendAmounts : SendCall(id, amount)
    \/ \E id \in TaskIds : SendCommit(id)
    \/ \E id \in TaskIds : SweepCall(id)
    \/ \E id \in TaskIds : SweepCommit(id)
    \/ \E id \in TaskIds : \E account \in RepresentativeArguments :
            SetRepresentativeCall(id, account)
    \/ \E id \in TaskIds : SetRepresentativeCommit(id)
    \/ \E id \in TaskIds : GetWorkSettles(id)
    \/ \E id \in TaskIds : CallSettled(id)
    \/ \E k \in 1..MaxCalls : PrecomputeSettles(k)
    \/ \E id \in TaskIds : ProcessAnswered(id)
    \/ \E id \in TaskIds : ProcessFails(id)

SpecChain == InitChain /\ [][NextChain]_vars

(***************************************************************************)
(* SpecLive: SpecChain with the failover of postRPC made visible and with  *)
(* progress assumed: every attempt of a request ends (the endpoint answers *)
(* or the abort timer of fetchWithTimeout fires), and the event loop runs  *)
(* every continuation that is ready.                                       *)
(***************************************************************************)
\* the endpoint lists the wallet's NanoRPC is built from (config.rpcUrls,
\* config.workerUrls)
WalletUrls == UrlArray(MaxUrls)

\* the attempt of the task's request at endpoint number `retry` ends with
\* an error postRPC retries: the request goes to the next endpoint
FailsOver(id) ==
    /\ \E action \in {"work_generate", "process"} : Awaits(id, action)
    /\ \E b \in EndpointBehaviours :
        LET got == Attempt(b, UrlAt(WalletUrls, tasks[id].retry))
        IN  /\ got.kind = "raise"
            /\ canRetry(got.error, tasks[id].retry, WalletUrls)
    /\ tasks' = [tasks EXCEPT ![id].retry = RetryAfter(@)]
    /\ UNCHANGED <<rpcVars, locker, state, config, previousFrontier, precompute, remote,
                 listeners, notified>>

NextLive ==
    \/ NextChain
    \/ \E id \in TaskIds : FailsOver(id)

\* one attempt of the task's request ends: it fails over, or postRPC
\* returns or throws
AttemptEnds(id) ==
    FailsOver(id) \/ GetWorkSettles(id) \/ ProcessAnswered(id)
        \/ ProcessFails(id)

\* the continuation of an answered request, and of the caller's await
Resumes(id) ==
    ReceiveCommit(id) \/ SendCommit(id) \/ SweepCommit(id)
        \/ SetRepresentativeCommit(id) \/ CallSettled(id)

SpecLive ==
    /\ InitChain
    /\ [][NextLive]_vars
    /\ WF_vars(\E id \in TaskIds : AttemptEnds(id))
    /\ WF_vars(\E id \in TaskIds : Resumes(id))

(***************************************************************************)
(* SpecStore: calls of update(partial, overwrite) and reset() on the store *)
(* of a wallet that has no listener subscribed (precomputeWork off).       *)
(***************************************************************************)
\* the snapshots with `key` alone, one for each value, and the empty one
Optional(key, values) == {<<>>} \cup {key :> v : v \in values}

\* the partial snapshots a caller passes to update
Partials ==
    {b @@ r @@ f @@ p :
        b \in Optional("balance", 0..InitialBalance),
        r \in Optional("receivable", 0..MinAmountRaw),
        f \in Optional("frontier", {NullHash, HashOf(OpenBlock)}),
        p \in Optional("representative", {NullAddress, "nano_rep0"})}

\* await Promise.all(promises), awaited by update(): what the call `id`
\* of update gets once the listeners called for it are as in `log`
PromiseAll(id, log) ==
    LET mine == SelectSeq(log, LAMBDA n : n.update = id)
    IN  IF \E i \in 1..Len(mine) : mine[i].promise \in {"threw", "rejected"}
        THEN Raise(ListenerError)
        ELSE IF \A i \in 1..Len(mine) : mine[i].promise = "resolved"
        THEN Return(Undefined)
        ELSE Pending

\* the world at the start of update() called as call `id`
NowFor(id) == [Now EXCEPT !.caller = id]

\* await update(partial, overwrite) up to the await of the listeners'
\* promises, or to its end when there is nothing to wait for
StoreUpdate(id, partial, overwrite) ==
    /\ IsNext(id)
    /\ LET w == updateWith(NowFor(id), partial, overwrite, FALSE, config)
           t == [NoTask EXCEPT
                    !.op = "update",
                    !.arg = [partial |-> partial, overwrite |-> overwrite]]
           all == PromiseAll(id, w.notified)
       IN  /\ Becomes(w)
           /\ tasks' = [tasks EXCEPT ![id] =
                    IF all = Pending THEN [t EXCEPT !.pc = "notify"]
                    ELSE Done(t, all)]
    /\ UNCHANGED <<rpcVars, locker, config, remote, listeners>>

\* reset(): this.update(this.defaultState, true, true), not awaited
StoreReset(id) ==
    /\ IsNext(id)
    /\ Becomes(updateWith(Now, defaultState, TRUE, TRUE, config))
    /\ tasks' = [tasks EXCEPT ![id] =
            Done([NoTask EXCEPT !.op = "reset"], Return(Undefined))]
    /\ UNCHANGED <<rpcVars, locker, config, remote, listeners>>

\* the promise of the i-th call of a listener settles; the update that
\* awaits it goes on when it was the last one or when it rejects
ListenerSettles(i) ==
    /\ Running
    /\ i \in 1..Len(notified)
    /\ notified[i].promise = "pending"
    /\ LET settled == IF notified[i].settles = "rejects" THEN "rejected"
                      ELSE "resolved"
           log == [notified EXCEPT ![i].promise = settled]
           id == notified[i].update
       IN  /\ notified' = log
           /\ IF id \in TaskIds /\ tasks[id].pc = "notify"
                    /\ PromiseAll(id, log) # Pending
              THEN tasks' = [tasks EXCEPT ![id] =
                        Done(tasks[id], PromiseAll(id, log))]
              ELSE UNCHANGED tasks
    /\ UNCHANGED <<rpcVars, locker, state, config, previousFrontier, precompute, remote,
                 listeners>>

\* the names of the listeners that are subscribed or were called
KnownListeners ==
    {listeners[i].name : i \in 1..Len(listeners)}
        \cup {notified[i].listener : i \in 1..Len(notified)}

\* subscribe(listener): this.internalListeners.push(listener), of a
\* function that was not subscribed before
Subscribe(name, behaviour) ==
    /\ Running
    /\ name \notin KnownListeners
    /\ \A other \in 1..(name - 1) : other \in KnownListeners
    /\ listeners' = Append(listeners,
                           [name |-> name, behaviour |-> behaviour])
    /\ UNCHANGED <<rpcVars, locker, state, config, previousFrontier, tasks, precompute,
                 remote, notified>>

\* unsubscribe(listener): findIndex and splice
Unsubscribe(name) ==
    /\ Running
    /\ \E i \in 1..Len(listeners) : listeners[i].name = name
    /\ listeners' = SelectSeq(listeners, LAMBDA l : l.name # name)
    /\ UNCHANGED <<rpcVars, locker, state, config, previousFrontier, tasks, precompute,
                 remote, notified>>

InitStore ==
    /\ rpc = NoRpc
    /\ call = NoCall
    /\ locker = NewLocker
    /\ \E cfg \in Configs :
        /\ ~cfg.precomputeWork
        /\ \/ NanoWallet(cfg, defaultState, FreshAccount)
           \/ \E saved \in SavedStates : NanoWallet(cfg, saved, OpenedAccount)

NextStore ==
    \/ \E id \in TaskIds : \E partial \in Partials, overwrite \in BOOLEAN :
            StoreUpdate(id, partial, overwrite)
    \/ \E id \in TaskIds : StoreReset(id)
    \/ \E id \in TaskIds : CallSettled(id)

SpecStore == InitStore /\ [][NextStore]_vars

(***************************************************************************)
(* SpecNotify: update(partial, overwrite) and reset() on the store of a    *)
(* wallet, with and without the precompute listener, while callers         *)
(* subscribe and unsubscribe listeners of their own.                       *)
(***************************************************************************)
ListenerNames == 1..MaxListeners

\* Partial snapshots that do and do not make the precompute listener act;
\* a caller that overwrites passes a whole snapshot.
NotifyPartials ==
    {f @@ k :
        f \in Optional("frontier", {HashOf(OpenBlock)}),
        k \in Optional("work",
                {Cached(HashOf(OpenBlock), SEND_DIFFICULTY,
                        WorkToken(HashOf(OpenBlock), SEND_DIFFICULTY))})}

InitNotify ==
    /\ rpc = NoRpc
    /\ call = NoCall
    /\ locker = NewLocker
    /\ \E cfg \in Configs :
        \/ NanoWallet(cfg, defaultState, FreshAccount)
        \/ \E saved \in SavedStates : NanoWallet(cfg, saved, OpenedAccount)

NextNotify ==
    \/ \E name \in ListenerNames, behaviour \in ListenerBehaviours :
            Subscribe(name, behaviour)
    \/ \E name \in ListenerNames : Unsubscribe(name)
    \/ \E id \in TaskIds : \E partial \in NotifyPartials :
            \/ StoreUpdate(id, partial, FALSE)
            \/ StoreUpdate(id, Merge(defaultState, partial), TRUE)
    \/ \E id \in TaskIds : StoreReset(id)
    \/ \E i \in 1..(2 * MaxCalls * MaxListeners) : ListenerSettles(i)
    \/ \E k \in 1..MaxCalls : PrecomputeSettles(k)
    \/ \E id \in TaskIds : CallSettled(id)

SpecNotify == InitNotify /\ [][NextNotify]_vars

(***************************************************************************)
(* SpecObserved: the calls of SpecChain on a wallet to which the caller    *)
(* has subscribed a listener that persists the snapshots it is called with.*)
(***************************************************************************)
\* wallet.subscribe(state => { save(state) }): a function that returns no
\* promise
Persisting == [name |-> 1, behaviour |-> "returns"]

InitObserved ==
    /\ rpc = NoRpc
    /\ call = NoCall
    /\ locker = NewLocker
    /\ config \in Configs
    /\ \E start \in ChainStarts :
        /\ state = Merge(defaultState, start.saved)
        /\ previousFrontier = start.saved.frontier
        /\ remote = start.account
    /\ tasks = [id \in TaskIds |-> NoTask]
    /\ precompute = <<>>
    /\ listeners = <<Persisting>>
    /\ notified = <<>>

NextObserved == NextChain

SpecObserved == InitObserved /\ [][NextObserved]_vars

(***************************************************************************)
(* SpecSaving: SpecChain with the listener of the README subscribed, an    *)
(* async function that awaits the caller's storage:                        *)
(*   wallet.subscribe(async state => { await saveIntoMyStorage(state); })  *)
(***************************************************************************)
Saving == [name |-> 1, behaviour |-> "resolves"]

InitSaving ==
    /\ rpc = NoRpc
    /\ call = NoCall
    /\ locker = NewLocker
    /\ config \in Configs
    /\ \E start \in ChainStarts :
        /\ state = Merge(defaultState, start.saved)
        /\ previousFrontier = start.saved.frontier
        /\ remote = start.account
    /\ tasks = [id \in TaskIds |-> NoTask]
    /\ precompute = <<>>
    /\ listeners = <<Saving>>
    /\ notified = <<>>

NextSaving ==
    \/ NextChain
    \/ \E i \in 1..Len(notified) : ListenerSettles(i)

SpecSaving == InitSaving /\ [][NextSaving]_vars

(***************************************************************************)
(* SpecLocker: callers that share one Locker; each releases only what it   *)
(* holds.  SpecLockerFair adds that a holder releases in the end and that  *)
(* the event loop runs the continuation of a resolved acquire.             *)
(***************************************************************************)
InitLocker ==
    /\ rpc = NoRpc
    /\ call = NoCall
    /\ locker = NewLocker
    /\ NanoWallet(CHOOSE cfg \in Configs : cfg.precomputeWork, defaultState,
                  FreshAccount)

NextLocker ==
    \/ \E c \in Clients : Acquire(c)
    \/ \E c \in Clients : Enter(c)
    \/ \E c \in Clients : Release(c)

SpecLocker == InitLocker /\ [][NextLocker]_vars

SpecLockerFair ==
    /\ InitLocker
    /\ [][NextLocker]_vars
    /\ \A c \in Clients : WF_vars(Enter(c)) /\ WF_vars(Release(c))

(***************************************************************************)
(* SpecPrecompute: a wallet with precomputeWork set whose store is updated *)
(* with any frontier and any cached work, and whose precompute requests    *)
(* are answered; one listener of a caller records the snapshots.           *)
(***************************************************************************)
\* the block that sends the whole balance of the opened account
SentAll ==
    Block(HashOf(OpenBlock), "nano_rep0", 0, Destination)

Frontiers == {HashOf(OpenBlock), HashOf(SentAll)}

PrecomputePartials ==
    {f @@ k :
        f \in Optional("frontier", {NullHash} \cup Frontiers),
        k \in Optional("work",
                {<<>>} \cup {Cached(h, SEND_DIFFICULTY,
                                    WorkToken(h, SEND_DIFFICULTY)) :
                                h \in Frontiers})}

\* new NanoWallet(config, saved) and subscribe(listener)
InitPrecompute ==
    /\ rpc = NoRpc
    /\ call = NoCall
    /\ locker = NewLocker
    /\ config \in {cfg \in Configs : cfg.precomputeWork}
    /\ \E saved \in {defaultState} \cup SavedStates :
        /\ state = Merge(defaultState, saved)
        /\ previousFrontier = saved.frontier
    /\ remote = OpenedAccount
    /\ tasks = [id \in TaskIds |-> NoTask]
    /\ precompute = <<>>
    /\ listeners = <<Persisting>>
    /\ notified = <<>>

NextPrecompute ==
    \/ \E id \in TaskIds : \E partial \in PrecomputePartials :
            StoreUpdate(id, partial, FALSE)
    \/ \E k \in 1..MaxCalls : PrecomputeSettles(k)
    \/ \E id \in TaskIds : CallSettled(id)

SpecPrecompute == InitPrecompute /\ [][NextPrecompute]_vars

(***************************************************************************)
(* The claims about NanoRPC, checked under SpecRpc.                        *)
(***************************************************************************)
Transient == {"timeout", "transport", "status", "badjson"}

ApplicationError == {"jsonErrorString", "jsonErrorObject"}

\* the retry indices 0, 1, ..., n - 1
InOrder(n) == [i \in 1..n |-> i - 1]

\* C1: when the first N-1 endpoints of a list of N time out and the Nth
\* answers, postRPC returns the body of the Nth endpoint, having attempted
\* the endpoints in list order, N attempts in all.
C1_FailoverOnTimeout ==
    LET n == Len(call.urls)
    IN  (/\ call.pc = "done"
         /\ n >= 1
         /\ \A i \in 1..(n - 1) : call.behaviour[i].kind = "timeout"
         /\ call.behaviour[n].kind = "json")
            => /\ call.result = Return([servedBy |-> call.urls[n]])
               /\ call.attempts = InOrder(n)

C1_Witness ==
    /\ call.pc = "done"
    /\ Len(call.urls) = 3
    /\ \A i \in 1..2 : call.behaviour[i].kind = "timeout"
    /\ call.result = Return([servedBy |-> UrlNames[3]])

\* C2: the attempt at an endpoint that is not the last one and fails with a
\* transport error, a non-success status or a body that is not JSON is
\* followed by an attempt at the next endpoint.
C2_EveryTransientFailureFailsOver ==
    call.pc = "done"
        => \A i \in 1..Len(call.attempts) :
            (i < Len(call.urls)
                /\ call.behaviour[i].kind \in {"transport", "status", "badjson"})
                => Len(call.attempts) > i

\* C3: an answer that carries an "error" field ends the call: postRPC
\* raises an error whose message is the node's text (when it is a string)
\* and no later endpoint is attempted.
C3_ApplicationErrorNotRetried ==
    \A i \in 1..Len(call.attempts) :
        (call.urls # <<>> /\ call.behaviour[i].kind \in ApplicationError)
            => /\ Len(call.attempts) = i
               /\ call.pc = "done"
                    => /\ call.result.kind = "raise"
                       /\ call.behaviour[i].kind = "jsonErrorString"
                            => call.result.error.message
                                    = call.behaviour[i].error

C3_Witness ==
    /\ call.pc = "done"
    /\ Len(call.urls) = 3
    /\ call.behaviour[1].kind = "timeout"
    /\ call.behaviour[2] = [kind |-> "jsonErrorString",
                            error |-> ACCOUNT_NOT_FOUND]
    /\ call.result = Raise(NewError(ACCOUNT_NOT_FOUND))
    /\ call.attempts = <<0, 1>>

\* C4: a call attempts each endpoint at most once and never more endpoints
\* than the list has; when every endpoint fails transiently it raises the
\* error of the last endpoint after exactly N attempts.
C4_AtMostOneAttemptPerEndpoint ==
    LET n == Len(call.urls)
    IN  call.pc = "done"
            => /\ \A i, j \in 1..Len(call.attempts) :
                    i # j => call.attempts[i] # call.attempts[j]
               /\ Len(call.attempts) <= n
               /\ (\A i \in 1..n : call.behaviour[i].kind \in Transient)
                    => /\ Len(call.attempts) = n
                       /\ call.result
                            = Attempt(call.behaviour[n], call.urls[n])

\* C5: no NanoRPC object is constructed with an empty RPC or work endpoint
\* list, and no request is issued over an empty list.
C5_EmptyListIsConstructionError ==
    /\ rpc.status = "ok"
            => Len(rpc.rpcUrls) > 0 /\ Len(rpc.workerUrls) > 0
    /\ call.pc # "idle" => Len(call.urls) > 0

(***************************************************************************)
(* The claims about NanoWallet, checked under SpecWallet.                  *)
(***************************************************************************)
NotFound == Raise(NewError(ACCOUNT_NOT_FOUND))

\* the step in which call `id` resumes with the answer of `action` and ends
Ends(id, action) == Answered(id, action) /\ tasks'[id].pc = "done"

C7_SyncRethrowsOtherErrors ==
    [][\A id \in TaskIds :
        (/\ tasks[id].op = "sync"
         /\ Ends(id, "account_info") \/ Ends(id, "receivable")
         /\ tasks[id].response.kind = "raise")
            => tasks'[id].result
                = IF tasks[id].response.error.message = ACCOUNT_NOT_FOUND
                  THEN Return(Undefined)
                  ELSE tasks[id].response]_vars

C7_Witness ==
    \E id \in TaskIds :
        /\ tasks[id].op = "sync"
        /\ tasks[id].pc = "done"
        /\ tasks[id].net = <<"account_info", "receivable">>
        /\ tasks[id].result = Raise(DOMAbortError)

\* the step in which call `id` is made and goes on to getWork
CallsGetWork(id) ==
    tasks[id].pc = "unused" /\ tasks'[id].pc \in {"work_generate", "process"}

\* the step in which the getWork of call `id` gets its solution
GetsWork(id) ==
    Awaits(id, "work_generate") /\ tasks'[id].pc = "process"

\* T1 >= T2 for the cached threshold, as unsigned integers
Reusable(st, hash, threshold) ==
    /\ st.work # <<>>
    /\ st.work[1].hash = hash
    /\ Gte(st.work[1].threshold, threshold)

\* C8 as claimed: getWork(hash, threshold) returns the cached solution
\* without a work_generate request when the cache holds the same hash at a
\* threshold that is, as an unsigned integer, at least the requested one;
\* otherwise it makes exactly one work_generate request and on success the
\* cache becomes {hash, requested threshold, new solution}.
C8_WorkCacheReuse ==
    [][\A id \in TaskIds :
        LET t == tasks'[id]
            hash == WorkRoot(t.block)
            threshold == ThresholdOf(t.op)
        IN  /\ (CallsGetWork(id) /\ Reusable(state, hash, threshold))
                => t.net = <<"process">> /\ t.work = <<state.work[1].work>>
            /\ (CallsGetWork(id) /\ ~Reusable(state, hash, threshold))
                => t.net = <<"work_generate">>
            /\ GetsWork(id)
                => /\ t.net = <<"work_generate", "process">>
                   /\ state'.work = Cached(hash, threshold, t.work[1])]_vars

\* C8 as amended: the same reuse rule; on success getWork writes {hash,
\* requested threshold, new solution} to the cache and returns the new
\* solution, and the cache keeps it unless precomputeWork is on and the hash
\* is not the store's frontier: then the listener clears the cache in the
\* same update.
C8_WorkCacheReuseUnlessCleared ==
    [][\A id \in TaskIds :
        LET t == tasks'[id]
            hash == WorkRoot(t.block)
            threshold == ThresholdOf(t.op)
        IN  /\ (CallsGetWork(id) /\ Reusable(state, hash, threshold))
                => t.net = <<"process">> /\ t.work = <<state.work[1].work>>
            /\ (CallsGetWork(id) /\ ~Reusable(state, hash, threshold))
                => t.net = <<"work_generate">>
            /\ GetsWork(id)
                => /\ t.net = <<"work_generate", "process">>
                   /\ validateWork(t.work[1], hash, threshold)
                   /\ state'.work
                        = IF config.precomputeWork /\ hash # state.frontier
                          THEN <<>>
                          ELSE Cached(hash, threshold, t.work[1])]_vars

\* a send found work cached for its frontier at the lower threshold of a
\* receive, asked for new work and now has it cached
C8_Witness ==
    \E id \in TaskIds :
        /\ tasks[id].op = "send"
        /\ tasks[id].net = <<"work_generate", "process">>
        /\ state.work = Cached(state.frontier, SEND_DIFFICULTY,
                               tasks[id].work[1])
        /\ \E saved \in SavedStates :
            /\ saved.frontier = state.frontier
            /\ saved.work # <<>>
            /\ saved.work[1].threshold = RECEIVE_DIFFICULTY

\* C9: the cache is written only with a solution that passed validation:
\* when work_generate fails, returns no work or returns work that
\* validateWork rejects, getWork raises and the cached work is what it was.
C9_CacheWrittenOnlyAfterValidation ==
    [][/\ \A id \in TaskIds :
            (Awaits(id, "work_generate") /\ tasks'[id].pc = "done")
                => /\ state'.work = state.work
                   /\ tasks'[id].result.kind = "raise"
                   /\ tasks'[id].result.error
                        \in {NewError("No work"), NewError("Invalid work")}
                                \cup RpcFailures
       /\ (state'.work # state.work /\ state'.work # <<>>)
            => validateWork(state'.work[1].work, state'.work[1].hash,
                            state'.work[1].threshold)]_vars

C9_Witness ==
    \E id \in TaskIds :
        /\ tasks[id].op = "receive"
        /\ tasks[id].pc = "done"
        /\ tasks[id].net = <<"work_generate">>
        /\ tasks[id].result = Raise(NewError("Invalid work"))

\* the hash is the hash of a block of the list, whatever the case of its
\* hex digits
InReceivableBlocks(st, hash) ==
    \E i \in 1..Len(st.receivableBlocks) :
        ToUpperCase(st.receivableBlocks[i].blockHash) = ToUpperCase(hash)

\* C10: receive(hash) for a hash that is not in receivableBlocks fails with
\* 'No receivable block', sends no request and leaves the store unchanged.
C10_ReceiveMissingBlock ==
    [][\A id \in TaskIds :
        (/\ tasks[id].pc = "unused"
         /\ tasks'[id].op = "receive"
         /\ ~InReceivableBlocks(state, tasks'[id].arg))
            => /\ tasks'[id].pc = "done"
               /\ tasks'[id].result = Raise(NewError("No receivable block"))
               /\ tasks'[id].net = <<>>
               /\ state' = state
               /\ precompute' = precompute
               /\ remote' = remote]_vars

C10_Witness ==
    \E id \in TaskIds :
        /\ tasks[id].op = "receive"
        /\ tasks[id].pc = "done"
        /\ tasks[id].result = Raise(NewError("No receivable block"))
        /\ tasks[id].net = <<>>
        /\ state.receivableBlocks # <<>>
        /\ ~InReceivableBlocks(state, tasks[id].arg)

(***************************************************************************)
(* The claims about the chain-mutating calls, checked under SpecChain.     *)
(***************************************************************************)
\* the step in which call `id` is made
Called(id) == tasks[id].pc = "unused" /\ tasks'[id].pc # "unused"

\* the step in which call `id` resumes with the answer of process and
\* returns
Commits(id) ==
    /\ Answered(id, "process")
    /\ tasks'[id].pc = "done"
    /\ tasks'[id].result.kind = "return"

\* C11: send, sweep and setRepresentative called while the store's frontier
\* is null fail with 'No frontier', send no request and leave the store
\* unchanged; while the frontier is null, in the store or on the ledger,
\* only a receive commits a block.
C11_NoFrontier ==
    [][/\ \A id \in TaskIds :
            (/\ Called(id)
             /\ tasks'[id].op \in {"send", "sweep", "setRepresentative"}
             /\ state.frontier = NullHash)
                => /\ tasks'[id].pc = "done"
                   /\ tasks'[id].result = Raise(NewError("No frontier"))
                   /\ tasks'[id].net = <<>>
                   /\ UNCHANGED <<state, config, precompute, remote>>
       /\ (state.frontier = NullHash /\ state'.frontier # NullHash)
            => \E id \in TaskIds : tasks[id].op = "receive" /\ Commits(id)
       /\ (remote.frontier = NullHash /\ remote'.frontier # NullHash)
            => \E id \in TaskIds :
                    tasks[id].op = "receive" /\ Awaits(id, "process")]_vars

C11_Witness ==
    \E id \in TaskIds :
        /\ tasks[id].op = "setRepresentative"
        /\ tasks[id].pc = "done"
        /\ tasks[id].result = Raise(NewError("No frontier"))
        /\ tasks[id].net = <<>>
        /\ state.frontier = NullHash

\* the amount the list has for the hash
AmountOf(st, hash) ==
    LET i == CHOOSE i \in 1..Len(st.receivableBlocks) :
                st.receivableBlocks[i].blockHash = hash
    IN  st.receivableBlocks[i].amount

\* C12: a call that goes on to submit a block has built it on the store's
\* frontier with balance B - amount (send), 0 (sweep) or B + amount(h)
\* (receive), B being the store's balance at the call; when the call
\* succeeds the store has the balance of that block and its hash as
\* frontier, and the call returns that hash.
C12_BalanceArithmetic ==
    [][\A id \in TaskIds :
        /\ (Called(id) /\ tasks'[id].pc # "done")
            => LET t == tasks'[id]
               IN  /\ t.block.previous = state.frontier
                   /\ t.op = "send"
                        => /\ t.amount <= state.balance
                           /\ t.block.balance = state.balance - t.amount
                   /\ t.op = "sweep" => t.block.balance = 0
                   /\ t.op = "receive"
                        => t.block.balance
                            = state.balance + AmountOf(state, t.block.link)
        /\ (Commits(id) /\ tasks[id].op \in {"send", "sweep", "receive"})
            => /\ state'.balance = tasks[id].block.balance
               /\ state'.frontier = HashOf(tasks[id].block)
               /\ tasks'[id].result
                    = Return([hash |-> HashOf(tasks[id].block)])]_vars

C12_Witness ==
    \E id \in TaskIds :
        /\ tasks[id].op = "send"
        /\ tasks[id].pc = "done"
        /\ tasks[id].result.kind = "return"
        /\ tasks[id].result.body.hash = state.frontier
        /\ state.balance = InitialBalance - 1
        /\ remote.frontier = state.frontier
        /\ remote.balance = state.balance

\* C13: when the hash the process request reports differs from the hash of
\* the block the call built, the call fails with 'Block hash mismatch' and
\* the store and the configuration stay as they were.
C13_HashMismatchCommitsNothing ==
    [][\A id \in TaskIds :
        (/\ Answered(id, "process")
         /\ tasks[id].response.kind = "return"
         /\ tasks[id].response.body.hash # HashOf(tasks[id].block)
         /\ tasks'[id] # tasks[id])
            => /\ tasks'[id].pc = "done"
               /\ tasks'[id].result = Raise(NewError("Block hash mismatch"))
               /\ UNCHANGED <<state, config>>]_vars

C13_Witness ==
    \E i, j \in TaskIds :
        /\ tasks[i].op = "setRepresentative"
        /\ tasks[i].pc = "done"
        /\ tasks[i].result = Raise(NewError("Block hash mismatch"))
        /\ tasks[j].op \in {"send", "sweep", "receive"}
        /\ tasks[j].pc = "process"

\* C14: a successful setRepresentative leaves the stored balance as it was,
\* equal to the balance of the block it submitted.
C14_SetRepresentativeKeepsBalance ==
    [][\A id \in TaskIds :
        (Commits(id) /\ tasks[id].op = "setRepresentative")
            => /\ state'.balance = state.balance
               /\ state'.balance = tasks[id].block.balance]_vars

\* C15: setRepresentative(R) builds its block with R, or with the configured
\* representative when called with no argument; when it succeeds the store's
\* and the configuration's representative are the block's, the frontier is
\* the returned hash and every other configuration key is unchanged.
C15_SetRepresentative ==
    [][\A id \in TaskIds :
        /\ (Called(id) /\ tasks'[id].op = "setRepresentative"
                /\ tasks'[id].pc # "done")
            => tasks'[id].block.representative
                = IF tasks'[id].account = NullAddress
                  THEN config.representative ELSE tasks'[id].account
        /\ (Commits(id) /\ tasks[id].op = "setRepresentative")
            => /\ state'.representative = tasks[id].block.representative
               /\ config'.representative = tasks[id].block.representative
               /\ tasks'[id].result = Return([hash |-> state'.frontier])
               /\ state'.frontier = HashOf(tasks[id].block)
               /\ DOMAIN config' = DOMAIN config
               /\ \A k \in DOMAIN config \ {"representative"} :
                        config'[k] = config[k]]_vars

C15_Witness ==
    \E id \in TaskIds :
        /\ tasks[id].op = "setRepresentative"
        /\ tasks[id].account = "nano_rep2"
        /\ tasks[id].pc = "done"
        /\ tasks[id].result = Return([hash |-> state.frontier])
        /\ state.representative = "nano_rep2"
        /\ config.representative = "nano_rep2"

\* C16: a send of more than the stored balance fails at the call, with no
\* request sent and the store unchanged, and the stored balance is never
\* negative.
C16_SendOverBalance ==
    [][/\ \A id \in TaskIds :
            (/\ Called(id)
             /\ tasks'[id].op = "send"
             /\ tasks'[id].amount > state.balance)
                => /\ tasks'[id].pc = "done"
                   /\ tasks'[id].result.kind = "raise"
                   /\ state.frontier # NullHash
                        => tasks'[id].result
                                = Raise(NewError("Balance is not valid"))
                   /\ tasks'[id].net = <<>>
                   /\ UNCHANGED <<state, config, precompute, remote>>
       /\ state.balance >= 0
       /\ state'.balance >= 0]_vars

C16_Witness ==
    \E id \in TaskIds :
        /\ tasks[id].op = "send"
        /\ tasks[id].pc = "done"
        /\ tasks[id].result = Raise(NewError("Balance is not valid"))
        /\ tasks[id].net = <<>>
        /\ state.frontier # NullHash

\* the call has built its block and not ended yet
InFlight(id) == tasks[id].pc \in {"work_generate", "process"}

\* C17: chain-mutating calls are serialized: no two calls in flight have read
\* the same frontier and built their blocks on it.
C17_ChainCallsSerialized ==
    \A i, j \in TaskIds :
        (i # j /\ InFlight(i) /\ InFlight(j))
            => tasks[i].block.previous # tasks[j].block.previous

(***************************************************************************)
(* The claims about the receivable list, checked under SpecWallet.         *)
(***************************************************************************)
\* C18: in every state of the store the receivable total is the sum of the
\* amounts of receivableBlocks, and no hash is twice in receivableBlocks.
C18_ReceivableTotalIsSum ==
    /\ state.receivable = SumAmounts(state.receivableBlocks)
    /\ \A i, j \in 1..Len(state.receivableBlocks) :
            i # j => state.receivableBlocks[i].blockHash
                        # state.receivableBlocks[j].blockHash

RECURSIVE ExactSum(_, _)
\* the sum of the amounts of the first n blocks
ExactSum(blocks, n) ==
    IF n = 0 THEN 0 ELSE ExactSum(blocks, n - 1) + blocks[n].amount

\* C19: a getReceivable() that succeeds returns, and leaves in the store,
\* the blocks of the answer and the sum of their amounts, whatever the store
\* held: a call against the receivable set an earlier call saw leaves list
\* and total as they are.
C19_GetReceivableIdempotent ==
    [][\A id \in TaskIds :
        (/\ tasks[id].op = "getReceivable"
         /\ Ends(id, "receivable")
         /\ tasks[id].response.kind = "return")
            => LET blocks == tasks[id].response.body.blocks
                   total == ExactSum(blocks, Len(blocks))
               IN  /\ state'.receivableBlocks = blocks
                   /\ state'.receivable = total
                   /\ tasks'[id].result
                        = Return([receivableBlocks |-> blocks,
                                  receivable |-> total])
                   /\ (state.receivableBlocks = blocks
                            /\ state.receivable = total)
                        => /\ state'.receivableBlocks = state.receivableBlocks
                           /\ state'.receivable = state.receivable]_vars

\* a call made after an earlier call ended has returned the one receivable
\* block of the account, which the store lists with its amount as total
C19_Witness ==
    /\ tasks[1].pc = "over"
    /\ tasks[2].op = "getReceivable"
    /\ tasks[2].pc = "done"
    /\ tasks[2].result.kind = "return"
    /\ tasks[2].result.body.receivableBlocks # <<>>
    /\ tasks[2].result.body.receivable = MinAmountRaw
    /\ state.receivable = MinAmountRaw
    /\ state.receivableBlocks = remote.receivable

(***************************************************************************)
(* The claim about update, checked under SpecStore.                        *)
(***************************************************************************)
\* C20: update(partial, overwrite) with overwrite false leaves a snapshot
\* that has the value of partial for every key of partial and the previous
\* value for every other key; with overwrite true the snapshot has exactly
\* the keys and values of partial.
C20_UpdateMergesOrOverwrites ==
    [][\A id \in TaskIds :
        (Called(id) /\ tasks'[id].op = "update")
            => LET partial == tasks'[id].arg.partial
               IN  IF tasks'[id].arg.overwrite
                   THEN /\ DOMAIN state' = DOMAIN partial
                        /\ \A k \in DOMAIN partial : state'[k] = partial[k]
                   ELSE /\ DOMAIN state' = DOMAIN state \cup DOMAIN partial
                        /\ \A k \in DOMAIN partial : state'[k] = partial[k]
                        /\ \A k \in DOMAIN state \ DOMAIN partial :
                                state'[k] = state[k]]_vars

\* update({balance}, true) on a snapshot with six keys left one key
C20_Witness ==
    \E id \in TaskIds :
        /\ tasks[id].op = "update"
        /\ tasks[id].pc = "done"
        /\ tasks[id].arg.overwrite
        /\ DOMAIN tasks[id].arg.partial = {"balance"}
        /\ DOMAIN state = {"balance"}

(***************************************************************************)
(* Further claims about the chain-mutating calls, checked under SpecChain. *)
(***************************************************************************)
\* C23: when a send, receive, sweep or setRepresentative succeeds, the
\* store's representative is the representative of the block it committed.
C23_RepresentativeFollowsBlock ==
    [][\A id \in TaskIds :
        Commits(id)
            => state'.representative = tasks[id].block.representative]_vars

\* C25: with precomputeWork on, after every step that writes the store the
\* cached work is null or is work for the store's frontier, also when the
\* step is that of a getWork resuming for a frontier the store has left;
\* with or without precomputeWork, a call that takes its work from the
\* cache takes the cached solution, cached for the very hash it asked for.
C25_CachedWorkIsForFrontier ==
    [][/\ (config.precomputeWork /\ state' # state)
            => \/ state'.work = <<>>
               \/ state'.work[1].hash = state'.frontier
       /\ \A id \in TaskIds :
            (CallsGetWork(id) /\ tasks'[id].pc = "process")
                => /\ state.work # <<>>
                   /\ state.work[1].hash = WorkRoot(tasks'[id].block)
                   /\ tasks'[id].work = <<state.work[1].work>>]_vars

\* the frontier has moved on while the getWork the listener started for
\* the frontier before it is still waiting, and the cache already holds
\* work for the new frontier
C25_Witness ==
    /\ config.precomputeWork
    /\ state.work # <<>>
    /\ state.work[1].hash = state.frontier
    /\ \E k \in 1..Len(precompute) :
            /\ precompute[k].hash # state.frontier
            /\ precompute[k].hash = state.frontier[1]

\* the step in which call `id` ends by throwing
Fails(id) ==
    /\ tasks[id].pc \notin {"done", "over"}
    /\ tasks'[id].pc = "done"
    /\ tasks'[id].result.kind = "raise"

\* the account fields of the snapshot
AccountFields == {"frontier", "balance", "receivableBlocks", "receivable",
                  "representative"}

\* C26: the step in which a send, receive, sweep or setRepresentative
\* throws (at its precondition, at createBlock, at getWork, at process or
\* at the hash check) leaves store and configuration as they were and ends
\* the call; the account fields of the snapshot change only in the step in
\* which a call resumes with the hash of its block from process.
C26_FailureLeavesState ==
    [][/\ \A id \in TaskIds :
            Fails(id) => UNCHANGED <<state, config, previousFrontier,
                                    precompute>>
       /\ (\E k \in AccountFields : state'[k] # state[k])
            => \E id \in TaskIds :
                    /\ Commits(id)
                    /\ tasks[id].response
                            = Return([hash |-> HashOf(tasks[id].block)])]_vars

\* a send got its work, which is cached, and then threw because process
\* failed; store and ledger are both where they were
C26_Witness ==
    \E id \in TaskIds :
        /\ tasks[id].op = "send"
        /\ tasks[id].pc = "done"
        /\ tasks[id].net = <<"work_generate", "process">>
        /\ tasks[id].result.kind = "raise"
        /\ state.work # <<>>
        /\ state.frontier = HashOf(OpenBlock)
        /\ state.balance = InitialBalance
        /\ remote.frontier = state.frontier

\* C30: with only send, receive, sweep and setRepresentative called, the
\* store's balance is the balance of the block whose hash is the store's
\* frontier (the third field of a hash is the block's balance).
C30_BalanceIsFrontierBlockBalance ==
    state.frontier # NullHash => state.balance = state.frontier[3]

(***************************************************************************)
(* Claims about the precomputed work, checked under SpecWallet.            *)
(***************************************************************************)
\* the step in which a getWork the listener started resumes
PrecomputeResumes == Len(precompute') < Len(precompute)

\* the step in which the listener starts a getWork
PrecomputeStarts == Len(precompute') > Len(precompute)

\* C24: the getWork the listener starts is not awaited.  The step that
\* made the update goes on: the call it belongs to returns or sends its next
\* request, with the new frontier stored.  When the getWork resumes, failed
\* or not, no call is affected and nothing of the store but the work cache
\* changes; the cache changes only to valid work for the frontier or to
\* null.
C24_PrecomputeFailureDropped ==
    [][/\ PrecomputeStarts
            => /\ state'.frontier = precompute'[Len(precompute')].hash
               /\ state'.frontier # state.frontier
               /\ \E id \in TaskIds :
                    /\ tasks'[id] # tasks[id]
                    /\ tasks'[id].result.kind # "raise"
                    /\ tasks'[id].op \in {"send", "receive"}
                        => tasks'[id].result
                                = Return([hash |-> state'.frontier])
                    /\ tasks'[id].op = "sync"
                        => tasks'[id].pc = "receivable"
       /\ PrecomputeResumes
            => /\ UNCHANGED <<tasks, config, remote>>
               /\ \A k \in DOMAIN state \ {"work"} : state'[k] = state[k]
               /\ \/ state'.work = state.work
                  \/ state'.work = <<>>
                  \/ /\ state'.work[1].hash = state.frontier
                     /\ validateWork(state'.work[1].work, state.frontier,
                                     SEND_DIFFICULTY)]_vars

\* a wallet with precomputeWork on committed a block of its own, the
\* getWork its listener started for the new frontier has failed, and the
\* store still has the committed frontier and the ledger's balance
C24_Witness ==
    /\ config.precomputeWork
    /\ state.frontier \notin {NullHash, HashOf(OpenBlock)}
    /\ state.frontier = remote.frontier
    /\ state.balance = remote.balance
    /\ \E id \in TaskIds : tasks[id].pc = "over"
    /\ precompute = <<>>
    /\ state.work = <<>>

\* C28: a sync() that resolves has fetched the receivable set, also when
\* account_info answered 'Account not found': it resolves on the answer of
\* the receivable request, and the store then lists the blocks of that
\* answer (those of at least minAmountRaw) with the sum of their amounts as
\* total.
C28_SyncFetchesReceivable ==
    [][\A id \in TaskIds :
        (/\ tasks[id].op = "sync"
         /\ tasks[id].pc # "done"
         /\ tasks'[id].pc = "done"
         /\ tasks'[id].result.kind = "return")
            => /\ tasks[id].pc = "receivable"
               /\ tasks[id].response.kind = "return"
               /\ LET blocks == tasks[id].response.body.blocks
                  IN  /\ state'.receivableBlocks = blocks
                      /\ state'.receivable
                            = ExactSum(blocks, Len(blocks))]_vars

RECURSIVE Precedes(_, _)
\* the block with hash h is an ancestor of the block with hash g (the
\* first field of a hash is the hash of the previous block)
Precedes(h, g) ==
    g # NullHash /\ (g[1] = h \/ Precedes(h, g[1]))

\* C29: the store's frontier never goes back to an ancestor of the
\* frontier it has, also when a sync() applies an account_info answer the
\* node gave before a block the wallet has committed since.
C29_SyncNeverRollsBack ==
    [][state'.frontier # state.frontier
            => ~Precedes(state'.frontier, state.frontier)]_vars

(***************************************************************************)
(* The claims about the store's listeners, checked under SpecNotify.       *)
(***************************************************************************)
\* the calls of listeners made in this step
NewlyNotified == SubSeq(notified', Len(notified) + 1, Len(notified'))

\* the listener `name` is called in this step for the update of call `id`
\* with snapshot `s` and marker `resetting`
NotifiedWith(name, id, s, resetting) ==
    \E i \in 1..Len(NewlyNotified) :
        /\ NewlyNotified[i].listener = name
        /\ NewlyNotified[i].update = id
        /\ NewlyNotified[i].state = s
        /\ NewlyNotified[i].resetting = resetting

\* C21: an update commits the new snapshot and calls every subscribed
\* listener with it, also when one of them rejects or throws; the update
\* resolves only when the promise of every listener it called is resolved.
C21_UpdateNotifiesEveryListener ==
    [][\A id \in TaskIds :
        /\ (Called(id) /\ tasks'[id].op = "update")
            => LET new == Assign(state, tasks'[id].arg.partial,
                                tasks'[id].arg.overwrite)
               IN  /\ \A k \in DOMAIN new \ {"work"} : state'[k] = new[k]
                   /\ \A i \in 1..Len(listeners) :
                        NotifiedWith(listeners[i].name, id, new, FALSE)
        /\ (tasks[id].op = "update" /\ tasks'[id].pc = "done"
                /\ tasks'[id].result.kind = "return")
            => \A i \in 1..Len(notified') :
                    notified'[i].update = id
                        => notified'[i].promise = "resolved"]_vars

\* C22: reset() stores the default snapshot whatever the snapshot was and
\* calls every subscribed listener with it and the marker true; the
\* listeners an update calls get the marker false.
C22_ResetNotifiesWithMarker ==
    [][\A id \in TaskIds :
        /\ (Called(id) /\ tasks'[id].op = "reset")
            => /\ state' = defaultState
               /\ \A i \in 1..Len(listeners) :
                    NotifiedWith(listeners[i].name, 0, defaultState, TRUE)
        /\ (Called(id) /\ tasks'[id].op = "update")
            => \A i \in 1..Len(NewlyNotified) :
                    ~NewlyNotified[i].resetting]_vars

(***************************************************************************)
(* The claim about what a subscribed listener sees of a commit, checked    *)
(* under SpecObserved.                                                     *)
(***************************************************************************)
\* snapshots s and t agree on the account fields
SameAccount(s, t) == \A k \in AccountFields : s[k] = t[k]

\* C27: a successful send, receive, sweep or setRepresentative writes the
\* new frontier together with the balance (and the receivable list and
\* total, or the representative) in one update: the store goes from the
\* snapshot before to the snapshot after in one step, the snapshot after
\* has the hash of the block as frontier and every other field the call
\* writes, and every snapshot a listener is called with in that step is the
\* snapshot after, never the new frontier beside an account field of the
\* snapshot before.
C27_CommitIsOneUpdate ==
    [][\A id \in TaskIds :
        Commits(id)
            => LET t == tasks[id]
               IN  /\ state'.frontier = HashOf(t.block)
                   /\ t.op \in {"send", "sweep", "receive"}
                        => state'.balance = t.block.balance
                   /\ t.op = "receive"
                        => /\ ~InReceivableBlocks(state', t.block.link)
                           /\ state'.receivable
                                = state.receivable - t.amount
                   /\ t.op = "setRepresentative"
                        => state'.representative = t.block.representative
                   /\ NewlyNotified # <<>>
                   /\ \A i \in 1..Len(NewlyNotified) :
                        SameAccount(NewlyNotified[i].state, state')]_vars

\* the listener has been called with the snapshot of a committed receive:
\* new frontier, new balance, the block gone from the list
C27_Witness ==
    \E id \in TaskIds, i \in 1..Len(notified) :
        /\ tasks[id].op = "receive"
        /\ tasks[id].pc = "done"
        /\ tasks[id].result.kind = "return"
        /\ notified[i].state.frontier = tasks[id].result.body.hash
        /\ notified[i].state.balance = remote.balance
        /\ notified[i].state.receivableBlocks = <<>>
        /\ SameAccount(notified[i].state, state)

(***************************************************************************)
(* Claims about termination, checked under SpecLive.                       *)
(***************************************************************************)
Ended(id) == tasks[id].pc \in {"done", "over"}

\* C31: provided every network attempt ends, every send, receive, sweep and
\* setRepresentative call that awaits an answer of the node eventually
\* returns or throws; none stays waiting for work or for its submission,
\* and none retries for ever.
C31_CallsTerminate == \A id \in TaskIds : InFlight(id) ~> Ended(id)

\* a call has ended whose last request went through every endpoint
C31_Witness ==
    \E id \in TaskIds :
        /\ tasks[id].pc = "done"
        /\ tasks[id].retry = Len(WalletUrls) - 1
        /\ Len(tasks[id].net) > 0

(***************************************************************************)
(* Claims about the listener of the constructor, checked under             *)
(* SpecPrecompute.                                                         *)
(***************************************************************************)
\* the call `id` of update is made in this step
Updates(id) == tasks[id].pc = "unused" /\ tasks'[id].op = "update"

\* the precompute requests an update of this step started
Started == SubSeq(precompute', Len(precompute) + 1, Len(precompute'))

\* C32: with precomputeWork set, an update that changes the frontier to a
\* new hash F that is not null starts at most one precompute work request,
\* for F, although the update of the listener calls the listener again; an
\* update that leaves the frontier as it was or sets it to null starts none,
\* and so does one after which the cached work has hash F; the update of a
\* precompute request that was answered starts none.
C32_OnePrecomputePerFrontier ==
    [][/\ \A id \in TaskIds :
            Updates(id) =>
                /\ Len(Started) <= 1
                /\ \A i \in 1..Len(Started) :
                        /\ Started[i].hash = state'.frontier
                        /\ Started[i].threshold = SEND_DIFFICULTY
                        /\ state'.frontier # NullHash
                        /\ state'.frontier # state.frontier
                /\ (state'.frontier \in {NullHash, state.frontier})
                        => Started = <<>>
                /\ (state'.work # <<>>
                        /\ state'.work[1].hash = state'.frontier)
                        => Started = <<>>
       /\ (\A id \in TaskIds : ~Updates(id))
            => Len(precompute') <= Len(precompute)]_vars

\* an update changed the frontier while work for the old one was cached:
\* the listener's own update ran the listeners with the work dropped, and
\* one request for the new frontier is open
C32_Witness ==
    /\ Len(precompute) = 1
    /\ precompute[1].hash = state.frontier
    /\ \E i \in 1..Len(notified) : \E j \in (i + 1)..Len(notified) :
        /\ notified[i].update = 0
        /\ notified[i].state.work = <<>>
        /\ notified[i].state.frontier = state.frontier
        /\ notified[j].update \in TaskIds
        /\ notified[j].state.work # <<>>
        /\ notified[j].state.frontier = state.frontier
        /\ notified[j].state.work[1].hash # state.frontier

(***************************************************************************)
(* Claims about what a listener has done when a call returns, checked      *)
(* under SpecSaving.                                                       *)
(***************************************************************************)
\* the call `id` has returned the hash of the block it committed
Resolved(id) ==
    /\ tasks[id].pc = "done"
    /\ tasks[id].op \in {"receive", "send", "sweep", "setRepresentative"}
    /\ tasks[id].result.kind = "return"

\* C33: when a receive, send, sweep or setRepresentative call resolves,
\* every subscribed listener has been called with the committed snapshot
\* and has finished with it: no promise a listener returned for a snapshot
\* with the committed frontier is still pending.
C33_ListenersFinishedAtReturn ==
    \A id \in TaskIds :
        Resolved(id) =>
            /\ \E i \in 1..Len(notified) :
                    notified[i].state.frontier = tasks[id].result.body.hash
            /\ \A i \in 1..Len(notified) :
                    notified[i].state.frontier = tasks[id].result.body.hash
                        => notified[i].promise = "resolved"

(***************************************************************************)
(* Claims about Locker, checked under SpecLocker and SpecLockerFair.       *)
(***************************************************************************)
\* the callers whose acquire is resolved and who did not release yet
Holders == {c \in Clients : locker.pc[c] \in {"resolved", "holding"}}

Waiters == {c \in Clients : locker.pc[c] = "waiting"}

\* some caller calls release in this step
Releases ==
    \E c \in Clients : locker.pc[c] = "holding" /\ locker'.pc[c] = "idle"

\* C34: when only the holder calls release, at most one caller holds the
\* lock at any time, and isLocked is true while one does; a release with
\* callers waiting hands the lock to exactly one of them and leaves
\* isLocked true; isLocked becomes false only by a release with an empty
\* queue.
C34_MutualExclusion ==
    /\ [](Cardinality(Holders) <= 1 /\ (Holders # {} => locker.isLocked))
    /\ [][/\ (Releases /\ locker.queue # <<>>)
                => /\ locker'.isLocked
                   /\ Cardinality(Holders') = 1
                   /\ Holders' \subseteq Waiters
                   /\ Cardinality(Waiters') = Cardinality(Waiters) - 1
          /\ (locker.isLocked /\ ~locker'.isLocked)
                => Releases /\ locker.queue = <<>>]_vars

\* a holder released while two callers waited: one of them holds the lock,
\* the other still waits
C34_Witness ==
    /\ locker.isLocked
    /\ Len(locker.woken) > 0
    /\ locker.pc[locker.woken[Len(locker.woken)]] = "holding"
    /\ locker.granted[Len(locker.granted)] = locker.woken[Len(locker.woken)]
    /\ Waiters # {}

\* C35: the lock is granted in the order acquire was called: provided every
\* holder releases in the end, every acquire is resolved in the end; no
\* caller that waits is passed over or woken twice, and none is left in the
\* queue while the lock is free.
C35_FifoAndProgress ==
    /\ [](locker.granted = SubSeq(locker.asked, 1, Len(locker.granted)))
    /\ [](~locker.isLocked => locker.queue = <<>>)
    /\ \A c \in Clients :
            (locker.pc[c] = "waiting") ~> (locker.pc[c] = "holding")

\* two callers waited at the same time and were woken in the order they
\* had called acquire; the second of them holds the lock
C35_Witness ==
    /\ Len(locker.woken) >= 2
    /\ Len(locker.asked) >= 3
    /\ locker.woken[1] = locker.asked[2]
    /\ locker.woken[2] = locker.asked[3]
    /\ locker.asked[2] # locker.asked[3]
    /\ locker.pc[locker.woken[2]] = "holding"
    /\ locker.asked[1] \notin {locker.asked[2], locker.asked[3]}

====
